---- MODULE Spec2Model ----
(***************************************************************************)
(* A model of mkb: the job queue (a bounded tokio mpsc channel), its       *)
(* single consumer (esi::processor::Processor), the program of main.rs     *)
(* with its three producer tasks, the interval scheduler                   *)
(* (esi::scheduler::start_scheduler), the HTTP triggers (http::handlers)   *)
(* and the killmail fan-out of esi::EsiClient.                             *)
(*                                                                         *)
(* main.rs starts the Processor and its own producers; it calls neither    *)
(* start_scheduler nor the handlers of http::handlers.  Spec is that       *)
(* program.  SpecService and the specifications after it put the           *)
(* scheduler, the handlers and the Processor on one channel, as the        *)
(* design document describes the service; its entry point is not in the    *)
(* sources.                                                                *)
(*                                                                         *)
(* Time is counted in minutes and advances in steps of ClockStep.  A task  *)
(* that waits for a timer is polled as soon as it is runnable, so the      *)
(* clock does not advance past a state in which the scheduler or a         *)
(* producer has a ready branch.                                            *)
(* Option<i64> values are sequences: <<>> is None and <<v>> is Some(v).    *)
(***************************************************************************)
EXTENDS Integers, Sequences, FiniteSets, TLC

(* ------------------------------ bounds -------------------------------- *)
\* capacity of the job channel in the model (the program uses 100)
QueueCapacity == 2
\* the clock runs from 0 to MaxTicks * ClockStep minutes
MaxTicks == 3
\* number of HTTP requests served in one run
MaxHttp == 1
\* accounts are the characters 1..MaxUsers
MaxUsers == 2
\* killmail identifiers are 1..MaxKm
MaxKm == 1
\* entity identifiers in killmail documents are 0..MaxId
MaxId == 1
\* number of accounts stored before a run over the users table with its tokens
MaxStored == 1

(* ------------------------- program constants -------------------------- *)
\* scheduler.rs: Duration::from_secs(5 * 60), in minutes
REFRESH_INTERVAL == 5
\* scheduler.rs: Duration::from_secs(10 * 60), in minutes
FETCH_INTERVAL == 10
\* scheduler.rs: Duration::from_secs(60 * 60), in minutes
RESOLVE_INTERVAL == 60
\* processor.rs: 20.minutes(), the window of Job::Refresh, in minutes
REFRESH_WINDOW == 20

ClockStep == REFRESH_INTERVAL
MaxTime == MaxTicks * ClockStep

Timers == {"refresh", "fetch", "resolve"}
Period(k) ==
    CASE k = "refresh" -> REFRESH_INTERVAL
      [] k = "fetch" -> FETCH_INTERVAL
      [] k = "resolve" -> RESOLVE_INTERVAL

Chars == 1..MaxUsers
KmIds == 1..MaxKm

VARIABLES
    now,          \* the clock, in minutes
    queue,        \* the jobs in the channel, oldest first
    nAccepted,    \* number of jobs accepted into the channel so far
    waiters,      \* the suspended send calls, oldest first: the sender and
                  \* whether a permit has been handed to it
    proc_pc,      \* Processor: "recv", "refresh", "refresh_send", "join",
                  \* "stopped", "panicked", "cancelled"
    cur,          \* the job the Processor is handling
    todo,         \* EsiClient::refresh: the users still to exchange
    tasks,        \* the JoinSet of get_killmails / resolve_killmails: per task its state
                  \* and the jobs it has left to send
    skipped,      \* get_killmail_data has skipped a sentinel entity
    started,      \* acceptance number of the last job whose handling started
    finished,     \* acceptance number of the last job whose handling finished
    discarded,    \* jobs still in the channel when the Receiver was dropped
    rows,         \* the table a specification is about, with all its columns:
                  \* table users wherever the Processor runs
    killmails,    \* table killmails: the killmail ids stored (status "new")
    entities,     \* table entities: id -> type of the stored row, "" if none
    sched_pc,     \* scheduler task: "off" (not started), "select", "send", "done"
    sched_job,    \* the timer whose job the scheduler is sending
    deadline,     \* per timer, the deadline of its next tick
    lastFire,     \* per timer, the time its last tick completed (-1: never)
    sends,        \* per timer, the number of send calls the scheduler made
    enq,          \* per timer, the number of its jobs placed in the queue
    stop_signal,  \* the oneshot stop signal has been sent
    idleCancel,   \* the stop signal was sent while the scheduler waited idle
    afterCancel,  \* send calls the scheduler made after the stop signal
    main_pc,      \* the entry point: "serving", "send_stop", "returned",
                  \* "panicked", and "exited", "aborted" once the runtime is gone
    prod,         \* main.rs: per producer task its state, the job it is at
                  \* and the time its sleep ends
    user_store,   \* main.rs: the keys of AppState.user_store
    nHttp,        \* HTTP requests served so far
    rejected,     \* try_send calls of the handlers that returned Full
    arg,          \* the input of a function that is run on its own
    ret           \* <<>> before that function has returned, <<result>> after

vars == <<now, queue, nAccepted, waiters, proc_pc, cur, todo, tasks, skipped,
          started, finished, discarded,
          rows, killmails, entities, sched_pc, sched_job, deadline, lastFire,
          sends, enq, stop_signal, idleCancel, afterCancel, main_pc, prod,
          user_store, nHttp, rejected, arg, ret>>

chanVars == <<queue, nAccepted, waiters>>
procVars == <<proc_pc, cur, todo, tasks, skipped, started, finished, discarded>>
storeVars == <<rows, killmails, entities>>
schedVars == <<sched_pc, sched_job, deadline, lastFire, sends, enq, afterCancel>>
cancelVars == <<stop_signal, idleCancel>>
mainVars == <<main_pc, prod, user_store>>
httpVars == <<nHttp, rejected>>
callVars == <<arg, ret>>

(* ------------------------------ the jobs ------------------------------ *)
\* processor::Job: kind is the variant, a and b its payload, seq the
\* acceptance number the channel gave it
Job(kind, a, b) == [kind |-> kind, a |-> a, b |-> b, seq |-> 0]
NoJob == Job("none", 0, "")

(* ---------------------------- the channel ----------------------------- *)
\* The channel is tokio's bounded mpsc: a semaphore of QueueCapacity
\* permits.  A job in the channel holds a permit until recv takes it; the
\* permit then goes to the oldest suspended send, which places its job when
\* its task is polled, and is free only when no send is suspended.

\* the Receiver is dropped when the Processor task ends or is cancelled
Closed == proc_pc \in {"stopped", "panicked", "cancelled"}

\* a task that holds a Sender: its kind and its index
Sender(k, i) == [k |-> k, i |-> i]

\* the send of the task is suspended in the semaphore's queue
Waiting(w) == \E n \in DOMAIN waiters : waiters[n].who = w

\* the suspended send of the task has been handed a permit
Granted(w) == \E n \in DOMAIN waiters : waiters[n].who = w /\ waiters[n].granted

\* the permits handed to suspended sends that have not placed their job yet
Reserved == Cardinality({n \in DOMAIN waiters : waiters[n].granted})

HasCapacityAlways == TRUE
\* tokio::sync::mpsc::channel(n): a permit is free
HasCapacity == Len(queue) + Reserved < QueueCapacity

\* the job is placed at the tail of the channel
Accept(j) ==
    /\ queue' = Append(queue, [j EXCEPT !.seq = nAccepted + 1])
    /\ nAccepted' = nAccepted + 1

\* Sender::try_send: "ok", or the error "full" or "closed"
TryResult ==
    IF Closed THEN "closed" ELSE IF HasCapacity THEN "ok" ELSE "full"

\* Sender::try_send(job): the job is placed only when the result is "ok"
TrySend(j) ==
    /\ IF TryResult = "ok" THEN Accept(j) ELSE UNCHANGED <<queue, nAccepted>>
    /\ rejected' = rejected + (IF TryResult = "full" THEN 1 ELSE 0)
    /\ UNCHANGED waiters

\* a poll of the task's Sender::send(..).await returns Ready: the channel is
\* closed, the suspended send was handed a permit, or it is the first poll
\* and a permit is free
SendReady(w) == Closed \/ Granted(w) \/ (~Waiting(w) /\ HasCapacity)

\* the task at a send can be polled: it has not been polled yet, or it was
\* woken
SendPollable(w) == ~Waiting(w) \/ SendReady(w)

\* the suspended sends without the task's
Without(w) == SelectSeq(waiters, LAMBDA x : x.who # w)

\* a send that places the job whether or not the Receiver is there
BlockingSendPlace(w, j) ==
    IF SendReady(w) THEN waiters' = Without(w) /\ Accept(j)
    ELSE /\ waiters' = Append(waiters, [who |-> w, granted |-> FALSE])
         /\ UNCHANGED <<queue, nAccepted>>

\* a poll of Sender::send(job).await by the task w: Err on a closed channel,
\* the job is lost; the job is placed when the send holds or gets a permit;
\* otherwise the send joins the suspended ones
BlockingSend(w, j) ==
    IF Closed THEN waiters' = Without(w) /\ UNCHANGED <<queue, nAccepted>>
    ELSE IF SendReady(w) THEN waiters' = Without(w) /\ Accept(j)
    ELSE /\ waiters' = Append(waiters, [who |-> w, granted |-> FALSE])
         /\ UNCHANGED <<queue, nAccepted>>

\* the suspended sends that hold no permit
Ungranted(ws) == {n \in DOMAIN ws : ~ws[n].granted}

\* a freed permit goes to the oldest suspended send that holds none
Grant(ws) ==
    IF Ungranted(ws) = {} THEN ws
    ELSE LET n == CHOOSE m \in Ungranted(ws) : \A o \in Ungranted(ws) : m <= o
         IN  [ws EXCEPT ![n].granted = TRUE]

(* ------------------------------ accounts ------------------------------ *)
\* users.filter(expires_at.gt(now - 20.minutes())): the rows inside the
\* window, in table order
DueUsers(rs, t) ==
    SelectSeq(rs, LAMBDA u : u.expires_at > t - REFRESH_WINDOW)

\* load::<models::User>: the query has no ORDER BY, the rows come in any order
LoadOrders(rs) ==
    { [i \in DOMAIN rs |-> rs[p[i]]] :
        p \in {q \in [DOMAIN rs -> DOMAIN rs] :
                 \A i, j \in DOMAIN rs : i # j => q[i] # q[j]} }

\* the provider's tokens last one clock step
TokenLife == ClockStep

\* User::new on the token pair n, given at time t for the character c and
\* expiring at the exp claim of its access token; a pair given for a
\* refresh token has the number of its request, a pair given for an
\* authorization code the negative of the number of the HTTP request
IssuedUser(c, n, t) ==
    [character_id |-> c, access_token |-> n, refresh_token |-> n,
     expires_at |-> t + TokenLife, created_at |-> t, updated_at |-> t,
     last_fetched |-> <<>>]

\* the account of the character c stored before the run with the token pair 0
StoredUser(c, e) ==
    [character_id |-> c, access_token |-> 0, refresh_token |-> 0,
     expires_at |-> e, created_at |-> e - TokenLife, updated_at |-> e - TokenLife,
     last_fetched |-> <<>>]

\* expiry of the accounts stored before the run: outside the window from the
\* start, leaving it after one clock step, and inside it
StoredExpiries == {0 - REFRESH_WINDOW - ClockStep, ClockStep - REFRESH_WINDOW, 0}

\* the users tables before a run: a row for each of the characters 1..n, for
\* n up to max, with an expiry of es
StoredTables(max, es) ==
    UNION {{[i \in 1..n |-> StoredUser(i, e[i])] : e \in [1..n -> es]}
           : n \in 0..max}

\* the character ids of table users
UserIds == {rows[i].character_id : i \in DOMAIN rows}

\* the row with the character id, if any
RowOf(rs, c) == {i \in DOMAIN rs : rs[i].character_id = c}

\* insert into users values (user): a new row in any case
SaveUserAppend(rs, user, utcnow) == Append(rs, user)

\* save_user: insert into users values (user) on conflict (character_id)
\* do update set access_token, refresh_token, expires_at of the user and
\* updated_at = Utc::now()
SaveUser(rs, user, utcnow) ==
    IF RowOf(rs, user.character_id) = {} THEN Append(rs, user)
    ELSE [i \in DOMAIN rs |->
            IF rs[i].character_id = user.character_id
            THEN [rs[i] EXCEPT !.access_token = user.access_token,
                               !.refresh_token = user.refresh_token,
                               !.expires_at = user.expires_at,
                               !.updated_at = utcnow]
            ELSE rs[i]]

(* ----------------------------- scheduler ------------------------------ *)
\* Interval::tick() is ready once its deadline has passed; tokio::time::interval
\* sets the first deadline to the time of creation
TimerReady(k) == deadline[k] <= now

\* the deadline after a tick, MissedTickBehavior::Burst (the default of
\* tokio::time::interval): the old deadline plus the period, also when late
NextDeadline(k) == deadline[k] + Period(k)

\* the job each timer's branch sends; the resolve branch sends none
TimerJob(k) == IF k = "refresh" THEN Job("Refresh", 0, "") ELSE Job("Killmails", 0, "")

\* the scheduler task as a holder of a Sender
Sched == Sender("scheduler", 0)

\* the select! waits idle: no branch is ready
SchedIdle ==
    /\ sched_pc = "select"
    /\ ~stop_signal
    /\ \A k \in Timers : ~TimerReady(k)

\* the scheduler task can run
SchedRunnable ==
    \/ sched_pc = "select" /\ (stop_signal \/ \E k \in Timers : TimerReady(k))
    \/ sched_pc = "send" /\ SendReady(Sched)

Fire(k) ==
    /\ deadline' = [deadline EXCEPT ![k] = NextDeadline(k)]
    /\ lastFire' = [lastFire EXCEPT ![k] = now]

\* select! branch of refresh_interval / fetch_interval: the tick completes and
\* the branch runs scheduler_sender.send(job).await, which completes at once
\* when a permit is free (or the channel is closed) and suspends otherwise
SchedTick(k) ==
    /\ sched_pc = "select"
    /\ TimerReady(k)
    /\ Fire(k)
    /\ sends' = [sends EXCEPT ![k] = @ + 1]
    /\ afterCancel' = afterCancel + (IF stop_signal THEN 1 ELSE 0)
    /\ sched_job' = k
    /\ BlockingSend(Sched, TimerJob(k))
    /\ IF SendReady(Sched)
       THEN /\ enq' = [enq EXCEPT ![k] = @ + (IF Closed THEN 0 ELSE 1)]
            /\ sched_pc' = "select"
       ELSE /\ sched_pc' = "send"
            /\ UNCHANGED enq
    /\ UNCHANGED <<now, callVars, procVars, storeVars, cancelVars, mainVars, httpVars>>

\* select! branch of resolve_interval: the tick completes, nothing is sent
SchedTickResolve ==
    /\ sched_pc = "select"
    /\ TimerReady("resolve")
    /\ Fire("resolve")
    /\ UNCHANGED <<now, callVars, chanVars, procVars, storeVars, sched_pc,
                   sched_job, sends, enq, afterCancel, cancelVars, mainVars,
                   httpVars>>

\* the scheduler's suspended send(job).await completes and the loop selects again
SchedSend ==
    /\ sched_pc = "send"
    /\ SendReady(Sched)
    /\ BlockingSend(Sched, TimerJob(sched_job))
    /\ enq' = [enq EXCEPT ![sched_job] = @ + (IF Closed THEN 0 ELSE 1)]
    /\ sched_pc' = "select"
    /\ UNCHANGED <<now, callVars, procVars, storeVars, sched_job, deadline, lastFire,
                   sends, afterCancel, cancelVars, mainVars, httpVars>>

SchedStopLate ==
    /\ sched_pc = "select"
    /\ stop_signal
    /\ sched_pc' = "done"
    /\ sends' = [sends EXCEPT !["refresh"] = @ + 1]
    /\ afterCancel' = afterCancel + 1
    /\ UNCHANGED <<now, callVars, chanVars, procVars, storeVars, sched_job,
                   deadline, lastFire, enq, cancelVars, mainVars, httpVars>>

\* select! branch of the stop receiver: break
SchedStop ==
    /\ sched_pc = "select"
    /\ stop_signal
    /\ sched_pc' = "done"
    /\ UNCHANGED <<now, callVars, chanVars, procVars, storeVars, sched_job,
                   deadline, lastFire, sends, enq, afterCancel, cancelVars,
                   mainVars, httpVars>>

\* the owner of the oneshot Sender sends the stop signal
Cancel ==
    /\ ~stop_signal
    /\ stop_signal' = TRUE
    /\ idleCancel' = SchedIdle
    /\ UNCHANGED <<now, callVars, chanVars, procVars, storeVars, schedVars,
                   mainVars, httpVars>>

(* --------------------------- HTTP front end --------------------------- *)
\* handlers refresh, killmails, resolve: try_send of the job, 200 in any case
HttpTrigger(kind) ==
    /\ main_pc = "serving"
    /\ nHttp < MaxHttp
    /\ nHttp' = nHttp + 1
    /\ TrySend(Job(kind, 0, ""))
    /\ UNCHANGED <<now, callVars, procVars, storeVars, schedVars, cancelVars, mainVars>>

HttpRefresh == HttpTrigger("Refresh")
HttpKillmails == HttpTrigger("Killmails")
HttpResolve == HttpTrigger("ResolveKillmails")

Nonces == {"n1", "n2"}
OptNonces == {<<>>} \cup {<<n>> : n \in Nonces}

NonceAny(cookie, state) == cookie # <<>>
\* the state parameter equals the nonce of the mkb_state cookie
NonceOk(cookie, state) == cookie # <<>> /\ state = cookie

\* outcomes of token_exchange: an Err, a panic of an unwrap in validate_jwt
\* (on get_rsa256_key or on the issuer claim), or the new user
ExchangeOutcomes == {"err", "jwks_panic", "ok"}

\* handler callback up to its response: 400 before anything else when the
\* cookie is missing or the state parameter is not its value; otherwise
\* token_exchange is called, its user (if Ok) goes to try_send, and the
\* response is 200 whether the exchange returned Ok or Err.  A panic inside
\* token_exchange unwinds the handler: nothing is sent and the request gets
\* no response (status <<>>)
CallbackOutcome(cookie, state, r) ==
    IF ~NonceOk(cookie, state)
    THEN [status |-> <<400>>, exchanged |-> FALSE, save |-> FALSE]
    ELSE IF r = "jwks_panic"
    THEN [status |-> <<>>, exchanged |-> TRUE, save |-> FALSE]
    ELSE [status |-> <<200>>, exchanged |-> TRUE, save |-> r = "ok"]

\* the effect of the callback on the queue: the user of the exchange is sent
\* in a SaveCharacter job
CallbackSave(cookie, state, r, c) ==
    IF CallbackOutcome(cookie, state, r).save
    THEN TrySend(Job("SaveCharacter", c, IssuedUser(c, 0 - nHttp', now)))
    ELSE UNCHANGED <<chanVars, rejected>>

\* handler callback: nonce check, token_exchange(AuthCode), try_send(SaveCharacter)
HttpCallback ==
    /\ main_pc = "serving"
    /\ nHttp < MaxHttp
    /\ nHttp' = nHttp + 1
    /\ \E cookie \in OptNonces, state \in OptNonces, r \in ExchangeOutcomes, c \in Chars :
          CallbackSave(cookie, state, r, c)
    /\ UNCHANGED <<now, callVars, procVars, storeVars, schedVars, cancelVars, mainVars>>

\* the callback requests: the cookie, the state parameter, the outcome the
\* exchange of the code would have, and the character it is for
CallbackRequests ==
    [cookie : OptNonces, state : OptNonces, exchange : ExchangeOutcomes, c : Chars]

\* handler callback on the request arg, its response kept in ret
HttpCallbackOn ==
    /\ main_pc = "serving"
    /\ ret = <<>>
    /\ arg # <<>>
    /\ nHttp' = nHttp + 1
    /\ CallbackSave(arg.cookie, arg.state, arg.exchange, arg.c)
    /\ ret' = <<CallbackOutcome(arg.cookie, arg.state, arg.exchange)>>
    /\ UNCHANGED <<now, arg, procVars, storeVars, schedVars, cancelVars, mainVars>>

(* -------------------------------- main -------------------------------- *)
\* the three tasks main spawns, each with a clone of the Sender
Producers == {"refresh_send", "fetch_send", "resolve_send"}

\* the jobs a producer sends in one round of its loop
ProdJobs(p) ==
    CASE p = "refresh_send" -> <<Job("Refresh", 0, "")>>
      [] p = "fetch_send" -> <<Job("Killmails", 0, "")>>
      [] p = "resolve_send" ->
            <<Job("Killmail", 1, "test"), Job("Character", 1, ""),
              Job("Corporation", 1, ""), Job("Alliance", 1, "")>>

\* tokio::time::sleep at the end of a round, in minutes
ProdSleep(p) ==
    CASE p = "refresh_send" -> 5
      [] p = "fetch_send" -> 10
      [] p = "resolve_send" -> 60

Prod(p) == Sender(p, 0)

\* a round's next let _ = tx.send(job).await is polled: when it completes,
\* placed or not, the producer goes on to its next job or to its sleep
ProdSend(p) ==
    /\ prod[p].pc = "send"
    /\ SendPollable(Prod(p))
    /\ BlockingSend(Prod(p), ProdJobs(p)[prod[p].i])
    /\ prod' = [prod EXCEPT ![p] =
                  IF ~SendReady(Prod(p)) THEN @
                  ELSE IF @.i < Len(ProdJobs(p)) THEN [@ EXCEPT !.i = @ + 1]
                  ELSE [pc |-> "sleep", i |-> 1, wake |-> now + ProdSleep(p)]]
    /\ UNCHANGED <<now, callVars, procVars, storeVars, schedVars, cancelVars,
                   main_pc, user_store, httpVars>>

\* the sleep of a producer ends
ProdWake(p) ==
    /\ prod[p].pc = "sleep"
    /\ prod[p].wake <= now
    /\ prod' = [prod EXCEPT ![p].pc = "send"]
    /\ UNCHANGED <<now, callVars, chanVars, procVars, storeVars, schedVars, cancelVars,
                   main_pc, user_store, httpVars>>

\* a producer task can run
ProdRunnable ==
    \E p \in Producers :
        \/ prod[p].pc = "sleep" /\ prod[p].wake <= now
        \/ prod[p].pc = "send" /\ SendPollable(Prod(p))

ProdNext == \E p \in Producers : ProdSend(p) \/ ProdWake(p)

\* the clock advances; a runnable scheduler or producer task is polled first
TimeAdvance ==
    /\ now < MaxTime
    /\ ~SchedRunnable
    /\ ~ProdRunnable
    /\ now' = now + ClockStep
    /\ UNCHANGED <<callVars, chanVars, procVars, storeVars, schedVars,
                   cancelVars, mainVars, httpVars>>

\* main.rs callback: nonce check, token_exchange(AuthCode), and the user (if
\* Ok) is inserted into user_store under its character id; no job is sent
MainCallback ==
    /\ main_pc = "serving"
    /\ nHttp < MaxHttp
    /\ nHttp' = nHttp + 1
    /\ \E cookie \in OptNonces, state \in OptNonces, r \in ExchangeOutcomes, c \in Chars :
          user_store' = IF CallbackOutcome(cookie, state, r).save
                        THEN user_store \cup {c} ELSE user_store
    /\ UNCHANGED <<now, callVars, chanVars, procVars, storeVars, schedVars, cancelVars,
                   main_pc, prod, rejected>>

\* axum::serve returns: Ok, and main goes on to send Stop; or bind or serve
\* gave an Err and the unwrap panics, main ending without sending Stop
MainServeExit ==
    /\ main_pc = "serving"
    /\ main_pc' \in {"send_stop", "panicked"}
    /\ UNCHANGED <<now, callVars, chanVars, procVars, storeVars, schedVars,
                   cancelVars, prod, user_store, httpVars>>

MainTask == Sender("main", 0)

\* jobs_sender.send(Job::Stop).await.unwrap() is polled: when the send
\* completes main returns, or panics if the channel is closed
MainSendStop ==
    /\ main_pc = "send_stop"
    /\ SendPollable(MainTask)
    /\ BlockingSend(MainTask, Job("Stop", 0, ""))
    /\ main_pc' = IF ~SendReady(MainTask) THEN "send_stop"
                  ELSE IF Closed THEN "panicked" ELSE "returned"
    /\ UNCHANGED <<now, callVars, procVars, storeVars, schedVars, cancelVars,
                   prod, user_store, httpVars>>

\* main has returned or panicked: the runtime of #[tokio::main] is dropped,
\* every spawned task is cancelled where it waits, and the channel goes with
\* the jobs still in it
RuntimeDrop ==
    /\ main_pc \in {"returned", "panicked"}
    /\ main_pc' = IF main_pc = "returned" THEN "exited" ELSE "aborted"
    /\ proc_pc' = IF Closed THEN proc_pc ELSE "cancelled"
    /\ discarded' = IF Closed THEN discarded ELSE Len(queue)
    /\ queue' = <<>>
    /\ waiters' = <<>>
    /\ tasks' = <<>>
    /\ todo' = <<>>
    /\ prod' = [p \in Producers |-> [prod[p] EXCEPT !.pc = "cancelled"]]
    /\ UNCHANGED <<now, callVars, nAccepted, cur, skipped, started, finished,
                   storeVars, schedVars, cancelVars, user_store, httpVars>>

MainNext == MainServeExit \/ MainSendStop \/ RuntimeDrop

(* ------------------------ the service's shutdown ----------------------- *)
\* The entry point that starts the scheduler and routes the handlers of
\* http::handlers is not in the sources.  Its shutdown follows the design
\* document: the server stops, then Job::Stop is sent with a blocking send,
\* and the Processor is left to reach it.

\* the server stops serving
ServiceServeExit ==
    /\ main_pc = "serving"
    /\ main_pc' = "send_stop"
    /\ UNCHANGED <<now, callVars, chanVars, procVars, storeVars, schedVars,
                   cancelVars, prod, user_store, httpVars>>

\* the blocking send of Job::Stop is polled
ServiceSendStop ==
    /\ main_pc = "send_stop"
    /\ SendPollable(MainTask)
    /\ BlockingSend(MainTask, Job("Stop", 0, ""))
    /\ main_pc' = IF SendReady(MainTask) THEN "exited" ELSE "send_stop"
    /\ UNCHANGED <<now, callVars, procVars, storeVars, schedVars, cancelVars,
                   prod, user_store, httpVars>>

ServiceNext == ServiceServeExit \/ ServiceSendStop

(* ------------------------- entity extraction -------------------------- *)
OptIds == {<<>>} \cup {<<i>> : i \in 0..MaxId}

\* models::Entity with an empty name
Entity(id, type) == [id |-> id, type |-> type]

PushAlways(f, type) == <<Entity(IF f = <<>> THEN 0 ELSE f[1], type)>>
\* if let Some(id) = obj.get(field).and_then(|id| id.as_i64()) { entities.push(..) }
PushIfSome(f, type) == IF f = <<>> THEN <<>> ELSE <<Entity(f[1], type)>>

\* the solar_system entity: id 0 when solar_system_id is missing
SolarSystem(doc) ==
    IF doc.solar_system_id # <<>>
    THEN Entity(doc.solar_system_id[1], "solar_system")
    ELSE Entity(0, "solar_system")

\* the entities of the victim object, when there is one
VictimEntities(doc) ==
    IF doc.victim = <<>> THEN <<>>
    ELSE LET v == doc.victim[1] IN
         PushIfSome(v.character_id, "character")
         \o PushIfSome(v.corporation_id, "corporation")
         \o PushIfSome(v.alliance_id, "alliance")
         \o PushIfSome(v.weapon_type_id, "weapon_type")
         \o PushIfSome(v.ship_type_id, "ship_type")

AttackerEntitiesShipFirst(a) ==
    PushIfSome(a.ship_type_id, "ship_type")
    \o PushIfSome(a.character_id, "character")
    \o PushIfSome(a.corporation_id, "corporation")
    \o PushIfSome(a.alliance_id, "alliance")

\* the entities of one entry of the attackers array
AttackerEntities(a) ==
    PushIfSome(a.character_id, "character")
    \o PushIfSome(a.corporation_id, "corporation")
    \o PushIfSome(a.alliance_id, "alliance")
    \o PushIfSome(a.ship_type_id, "ship_type")

RECURSIVE AttackersEntities(_)
\* for attacker in attackers { .. }, in array order
AttackersEntities(as) ==
    IF as = <<>> THEN <<>>
    ELSE AttackerEntities(Head(as)) \o AttackersEntities(Tail(as))

\* a document without solar_system_id ends the resolution with no entity
ExtractEntitiesAbort(doc) ==
    IF doc.solar_system_id = <<>> THEN <<>>
    ELSE <<SolarSystem(doc)>> \o VictimEntities(doc) \o AttackersEntities(doc.attackers)

\* get_killmail_data: the entities vector collected from a killmail document
ExtractEntities(doc) ==
    <<SolarSystem(doc)>> \o VictimEntities(doc) \o AttackersEntities(doc.attackers)

KeepAll(ents) == ents
\* for entity in entities { if entity.id == 0 { continue; } send(SaveEntity(entity)) }
NonSentinel(ents) ==
    LET keep(e) == e.id # 0 IN SelectSeq(ents, keep)

\* the SaveEntity jobs get_killmail_data sends for a document, in order
EntityJobs(doc) ==
    LET ents == NonSentinel(ExtractEntities(doc)) IN
    [i \in 1..Len(ents) |-> Job("SaveEntity", ents[i].id, ents[i].type)]

\* the number of entities of a document the send loop skips
Skipped(doc) == Len(ExtractEntities(doc)) - Len(NonSentinel(ExtractEntities(doc)))

\* killmail documents the remote API may return
Victim(c) ==
    [character_id |-> c, corporation_id |-> <<>>, alliance_id |-> <<>>,
     weapon_type_id |-> <<>>, ship_type_id |-> <<>>]
Attacker(c) ==
    [character_id |-> c, corporation_id |-> <<>>, alliance_id |-> <<>>,
     ship_type_id |-> <<>>]
Docs ==
    { [solar_system_id |-> s, victim |-> v, attackers |-> a] :
        s \in OptIds,
        v \in {<<>>} \cup {<<Victim(c)>> : c \in OptIds},
        a \in {<<>>} \cup {<<Attacker(c)>> : c \in (OptIds \ {<<>>})} }

\* what get_killmail_data makes of its request: an Err when the request fails,
\* otherwise the SaveEntity jobs of the document and whether it skipped a sentinel
DetailResults ==
    {[ok |-> FALSE, jobs |-> <<>>, skipped |-> FALSE]}
    \cup {[ok |-> TRUE, jobs |-> EntityJobs(doc), skipped |-> Skipped(doc) > 0] :
             doc \in Docs}

\* killmail listings the remote API may return: distinct ids, any order
Listings ==
    { l \in UNION {[1..n -> KmIds] : n \in 0..MaxKm} :
        \A i, j \in DOMAIN l : i # j => l[i] # l[j] }

\* get_personal_killmails: one SaveKillmail job per item, status "new"
KillmailJobs(l) == [i \in DOMAIN l |-> Job("SaveKillmail", l[i], "new")]


(* ----------------------------- processor ------------------------------ *)
RecvIndexLast == Len(queue)
\* Receiver::recv yields the oldest job of the channel
RecvIndex == 1

Remove(s, i) == SubSeq(s, 1, i - 1) \o SubSeq(s, i + 1, Len(s))

\* while let Some(job) = jobs_rx.recv().await: the loop is back at recv and a
\* job is waiting
RecvReady == proc_pc = "recv" /\ queue # <<>>

\* the job is taken from the channel and its match arm starts
Recv(kind) ==
    /\ RecvReady
    /\ queue[RecvIndex].kind = kind
    /\ cur' = queue[RecvIndex]
    /\ started' = queue[RecvIndex].seq

\* recv returns the job: it leaves the channel and its permit goes to the
\* oldest suspended send
Dequeue ==
    /\ queue' = Remove(queue, RecvIndex)
    /\ waiters' = Grant(waiters)

\* the match arm ends and the loop goes back to recv
Finish(j) ==
    /\ proc_pc' = "recv"
    /\ finished' = j.seq

\* the Processor task ends, by break or by a panic: the Receiver is dropped
\* and the jobs left in the channel with it; the sends still suspended get
\* their Err when they are polled
EndTask(pc, q) ==
    /\ proc_pc' = pc
    /\ discarded' = Len(q)
    /\ queue' = <<>>
    /\ waiters' = waiters

\* outcomes of pool.get().unwrap() followed by a query
DbOutcomes == {"pool_err", "query_err", "ok"}

\* Job::Refresh: load the users whose expiry is inside the window, then
\* client.refresh(users)
ProcRefresh ==
    /\ Recv("Refresh")
    /\ \E r \in DbOutcomes :
        CASE r = "pool_err" ->
                /\ Dequeue
                /\ proc_pc' = "panicking"
                /\ UNCHANGED <<todo, finished, discarded>>
          [] r = "query_err" ->
                /\ Dequeue
                /\ Finish(queue[RecvIndex])
                /\ UNCHANGED <<todo, discarded>>
          [] r = "ok" ->
                /\ Dequeue
                /\ todo' \in LoadOrders(DueUsers(rows, now))
                /\ IF DueUsers(rows, now) = <<>> THEN Finish(queue[RecvIndex])
                   ELSE proc_pc' = "refresh" /\ finished' = finished
                /\ UNCHANGED discarded
    /\ UNCHANGED <<now, callVars, skipped, nAccepted, tasks, storeVars, schedVars, cancelVars,
                   mainVars, httpVars>>

\* EsiClient::refresh: the exchange of the next user; the new user takes its
\* place at the head of the batch until it is sent
ProcExchange ==
    /\ proc_pc = "refresh"
    /\ \E r \in ExchangeOutcomes :
        CASE r = "err" ->
                /\ todo' = Tail(todo)
                /\ IF Tail(todo) = <<>> THEN Finish(cur)
                   ELSE UNCHANGED <<proc_pc, finished>>
                /\ UNCHANGED <<queue, waiters, discarded>>
          [] r = "jwks_panic" ->
                /\ EndTask("panicked", queue)
                /\ UNCHANGED <<todo, finished>>
          [] r = "ok" ->
                /\ proc_pc' = "refresh_send"
                /\ todo' = <<IssuedUser(Head(todo).character_id, cur.seq, now)>>
                           \o Tail(todo)
                /\ UNCHANGED <<queue, waiters, finished, discarded>>
    /\ UNCHANGED <<now, callVars, skipped, nAccepted, cur, tasks, started, storeVars, schedVars,
                   cancelVars, mainVars, httpVars>>

\* the Processor task as a holder of the client's Sender
Refresher == Sender("processor", 0)

\* EsiClient::refresh: jobs_sender.send(SaveCharacter(new_user)).await is
\* polled; when it completes the batch goes on
ProcRefreshSend ==
    /\ proc_pc = "refresh_send"
    /\ SendPollable(Refresher)
    /\ BlockingSend(Refresher, Job("SaveCharacter", Head(todo).character_id, Head(todo)))
    /\ IF SendReady(Refresher)
       THEN /\ todo' = Tail(todo)
            /\ IF Tail(todo) = <<>> THEN Finish(cur)
               ELSE proc_pc' = "refresh" /\ finished' = finished
       ELSE UNCHANGED <<todo, proc_pc, finished>>
    /\ UNCHANGED <<now, callVars, skipped, cur, tasks, started, discarded, storeVars, schedVars,
                   cancelVars, mainVars, httpVars>>

\* a spawned task of the JoinSet, before its request
NewTask == [st |-> "fetch", out |-> <<>>, got |-> <<>>]

\* JoinSet::spawn per element, then join_all
Spawn(n, j) ==
    /\ tasks' = [i \in 1..n |-> NewTask]
    /\ IF n = 0 THEN Finish(j)
       ELSE proc_pc' = "join" /\ finished' = finished

\* Job::Killmails: load all the users, then client.get_killmails(users)
ProcKillmails ==
    /\ Recv("Killmails")
    /\ \E r \in DbOutcomes :
        CASE r = "pool_err" ->
                /\ Dequeue
                /\ proc_pc' = "panicking"
                /\ UNCHANGED <<tasks, finished, discarded>>
          [] r = "query_err" ->
                /\ Dequeue
                /\ Finish(queue[RecvIndex])
                /\ UNCHANGED <<tasks, discarded>>
          [] r = "ok" ->
                /\ Dequeue
                /\ Spawn(Len(rows), queue[RecvIndex])
                /\ UNCHANGED discarded
    /\ UNCHANGED <<now, callVars, skipped, nAccepted, todo, storeVars, schedVars, cancelVars,
                   mainVars, httpVars>>

\* the killmail references pending resolution: those with status "new"
PendingKillmails == killmails

\* Job::ResolveKillmails: query the pending killmails, then
\* client.resolve_killmails(killmails)
ProcResolve ==
    /\ Recv("ResolveKillmails")
    /\ \E r \in DbOutcomes :
        CASE r = "pool_err" ->
                /\ Dequeue
                /\ proc_pc' = "panicking"
                /\ UNCHANGED <<tasks, finished, discarded>>
          [] r = "query_err" ->
                /\ Dequeue
                /\ Finish(queue[RecvIndex])
                /\ UNCHANGED <<tasks, discarded>>
          [] r = "ok" ->
                /\ Dequeue
                /\ Spawn(Cardinality(PendingKillmails), queue[RecvIndex])
                /\ UNCHANGED discarded
    /\ UNCHANGED <<now, callVars, skipped, nAccepted, todo, storeVars, schedVars, cancelVars,
                   mainVars, httpVars>>

\* the kinds of job whose match arm writes a log line and nothing else
LogKinds == {"Killmail", "Character", "Corporation", "Alliance"}

\* Job::Killmail, Job::Character, Job::Corporation, Job::Alliance: info!(..)
ProcLog(kind) ==
    /\ Recv(kind)
    /\ Dequeue
    /\ Finish(queue[RecvIndex])
    /\ UNCHANGED <<now, callVars, skipped, nAccepted, todo, tasks, discarded, storeVars,
                   schedVars, cancelVars, mainVars, httpVars>>

FetchedAbortAll(i, ok, jobs) ==
    tasks' = [j \in DOMAIN tasks |->
                 IF ok /\ j = i
                 THEN [st |-> IF jobs = <<>> THEN "done" ELSE "send",
                       out |-> jobs, got |-> jobs]
                 ELSE IF ok THEN tasks[j]
                 ELSE [tasks[j] EXCEPT !.st = "failed"]]

\* the state of a task that has the jobs left to send
Sending(jobs) == IF jobs = <<>> THEN "done" ELSE "send"

\* the task's request has returned: on an Err the task logs it and ends,
\* otherwise it goes on to send the jobs it got
Fetched(i, ok, jobs) ==
    tasks' = [tasks EXCEPT ![i] =
                 [st |-> IF ok THEN Sending(jobs) ELSE "failed",
                  out |-> jobs, got |-> jobs]]

\* the loop ends after its first send
SentAll(i) ==
    tasks' = [tasks EXCEPT ![i] =
                 [st |-> "done", out |-> <<>>, got |-> tasks[i].got]]

\* the task has sent the first of the jobs it had left
Sent(i) ==
    tasks' = [tasks EXCEPT ![i] =
                 [st |-> Sending(Tail(tasks[i].out)),
                  out |-> Tail(tasks[i].out), got |-> tasks[i].got]]

\* get_personal_killmails in a spawned task: the request fails (the task logs
\* the error) or returns a listing
TaskFetchKillmails(i) ==
    /\ proc_pc = "join"
    /\ cur.kind = "Killmails"
    /\ tasks[i].st = "fetch"
    /\ \E ok \in BOOLEAN, l \in Listings :
          Fetched(i, ok, IF ok THEN KillmailJobs(l) ELSE <<>>)
    /\ UNCHANGED <<now, callVars, skipped, chanVars, proc_pc, cur, todo, started, finished,
                   discarded, storeVars, schedVars, cancelVars, mainVars, httpVars>>

\* get_killmail_data in a spawned task: the request fails or returns a document
TaskFetchDetail(i) ==
    /\ proc_pc = "join"
    /\ cur.kind = "ResolveKillmails"
    /\ tasks[i].st = "fetch"
    /\ \E r \in DetailResults :
          /\ Fetched(i, r.ok, r.jobs)
          /\ skipped' = (skipped \/ r.skipped)
    /\ UNCHANGED <<now, callVars, chanVars, proc_pc, cur, todo, started, finished,
                   discarded, storeVars, schedVars, cancelVars, mainVars, httpVars>>

\* the i-th task of the JoinSet as a holder of a Sender
Task(i) == Sender("task", i)

\* a spawned task's jobs_sender.send(job).await is polled; when it completes,
\* placed or not, the task goes on to its next job
TaskSend(i) ==
    /\ proc_pc = "join"
    /\ tasks[i].st = "send"
    /\ SendPollable(Task(i))
    /\ BlockingSend(Task(i), Head(tasks[i].out))
    /\ IF SendReady(Task(i)) THEN Sent(i) ELSE UNCHANGED tasks
    /\ UNCHANGED <<now, callVars, skipped, proc_pc, cur, todo, started, finished, discarded,
                   storeVars, schedVars, cancelVars, mainVars, httpVars>>

ProcJoinAny ==
    /\ proc_pc = "join"
    /\ \E i \in DOMAIN tasks : tasks[i].st \in {"done", "failed"}
    /\ Finish(cur)
    /\ tasks' = <<>>
    /\ UNCHANGED <<now, callVars, skipped, chanVars, cur, todo, started, discarded,
                   storeVars, schedVars, cancelVars, mainVars, httpVars>>

\* set.join_all().await returns: every task has ended, with or without an Err
ProcJoin ==
    /\ proc_pc = "join"
    /\ \A i \in DOMAIN tasks : tasks[i].st \in {"done", "failed"}
    /\ Finish(cur)
    /\ tasks' = <<>>
    /\ UNCHANGED <<now, callVars, skipped, chanVars, cur, todo, started, discarded,
                   storeVars, schedVars, cancelVars, mainVars, httpVars>>

\* outcomes of a storage handler: pool.get().unwrap() panics, the statement
\* fails, or it succeeds
SaveOutcomes == {"pool_err", "db_err", "ok"}

\* save_killmail: insert .. on conflict do nothing
SaveKillmailRow(k) == killmails \cup {k}
\* save_entity: insert .. on conflict do nothing, the key is id
SaveEntityRow(id, type) ==
    IF id \in DOMAIN entities /\ entities[id] # "" THEN entities
    ELSE [i \in DOMAIN entities \cup {id} |-> IF i = id THEN type ELSE entities[i]]

\* the match arm of a save job: the storage handler is called, an Err is
\* logged; us, ks, es are the tables after a successful statement
ProcSave(kind, us, ks, es) ==
    /\ Recv(kind)
    /\ \E r \in SaveOutcomes :
        CASE r = "pool_err" ->
                /\ Dequeue
                /\ proc_pc' = "panicking"
                /\ UNCHANGED <<storeVars, finished, discarded>>
          [] r = "db_err" ->
                /\ Dequeue
                /\ Finish(queue[RecvIndex])
                /\ UNCHANGED <<storeVars, discarded>>
          [] r = "ok" ->
                /\ Dequeue
                /\ Finish(queue[RecvIndex])
                /\ rows' = us /\ killmails' = ks /\ entities' = es
                /\ UNCHANGED discarded
    /\ UNCHANGED <<now, callVars, skipped, nAccepted, todo, tasks, schedVars, cancelVars,
                   mainVars, httpVars>>

\* Job::SaveCharacter(user): save_user(conn, &user)
ProcSaveCharacter ==
    /\ RecvReady
    /\ queue[RecvIndex].kind = "SaveCharacter"
    /\ ProcSave("SaveCharacter", SaveUser(rows, queue[RecvIndex].b, now),
                killmails, entities)

\* Job::SaveKillmail(killmail)
ProcSaveKillmail ==
    /\ RecvReady
    /\ ProcSave("SaveKillmail", rows, SaveKillmailRow(queue[RecvIndex].a), entities)

\* Job::SaveEntity(entity)
ProcSaveEntity ==
    /\ RecvReady
    /\ queue[RecvIndex].kind = "SaveEntity"
    /\ ProcSave("SaveEntity", rows, killmails,
                SaveEntityRow(queue[RecvIndex].a, queue[RecvIndex].b))

ProcStopContinue ==
    /\ Recv("Stop")
    /\ Dequeue
    /\ Finish(queue[RecvIndex])
    /\ UNCHANGED <<now, callVars, skipped, nAccepted, todo, tasks, discarded, storeVars,
                   schedVars, cancelVars, mainVars, httpVars>>

\* Job::Stop: recv has returned the job, its permit has gone to the oldest
\* suspended send, and the arm logs and breaks
ProcStop ==
    /\ Recv("Stop")
    /\ Dequeue
    /\ proc_pc' = "stopping"
    /\ finished' = queue[RecvIndex].seq
    /\ UNCHANGED <<now, callVars, skipped, nAccepted, todo, tasks, discarded, storeVars,
                   schedVars, cancelVars, mainVars, httpVars>>

\* the spawned task returns after the break, or unwinds from the panic of
\* pool.get().unwrap(): the Receiver is dropped with the jobs that are in the
\* channel by now, those placed since the last recv included
ProcDrop ==
    /\ proc_pc \in {"panicking", "stopping"}
    /\ EndTask(IF proc_pc = "stopping" THEN "stopped" ELSE "panicked", queue)
    /\ UNCHANGED <<now, callVars, nAccepted, cur, todo, tasks, skipped, started, finished,
                   storeVars, schedVars, cancelVars, mainVars, httpVars>>

(* --------------------------- specifications -------------------------- *)
\* the state after construction, over a database that holds the accounts rs
\* and the killmail references ks; sp is the state of the scheduler task and
\* pp that of the producer tasks of main.rs
InitState(rs, ks, sp, pp, cp) ==
    /\ now = 0
    /\ queue = <<>>
    /\ nAccepted = 0
    /\ waiters = <<>>
    /\ proc_pc = cp
    /\ cur = NoJob
    /\ todo = <<>>
    /\ tasks = <<>>
    /\ skipped = FALSE
    /\ started = 0
    /\ finished = 0
    /\ discarded = 0
    /\ rows = rs
    /\ killmails = ks
    /\ entities = [i \in 0..MaxId |-> ""]
    /\ sched_pc = sp
    /\ sched_job = "refresh"
    /\ deadline = [k \in Timers |-> 0]
    /\ lastFire = [k \in Timers |-> -1]
    /\ sends = [k \in Timers |-> 0]
    /\ enq = [k \in Timers |-> 0]
    /\ stop_signal = FALSE
    /\ idleCancel = FALSE
    /\ afterCancel = 0
    /\ main_pc = "serving"
    /\ prod = [p \in Producers |-> [pc |-> pp, i |-> 1, wake |-> 0]]
    /\ user_store = {}
    /\ nHttp = 0
    /\ rejected = 0

\* the service after construction, no function being run on its own
InitWith(rs, ks) ==
    /\ InitState(rs, ks, "select", "off", "recv")
    /\ arg = <<>>
    /\ ret = <<>>

\* the state in which a function is run on its own on an input of the set
InitCall(inputs) ==
    /\ InitState(<<>>, {}, "select", "off", "recv")
    /\ arg \in inputs
    /\ ret = <<>>

\* the match arms of the Processor that do more than log, and the tasks of
\* its JoinSet
ProcCore ==
    \/ ProcRefresh
    \/ ProcExchange
    \/ ProcRefreshSend
    \/ ProcKillmails
    \/ \E i \in DOMAIN tasks : TaskFetchKillmails(i)
    \/ \E i \in DOMAIN tasks : TaskSend(i)
    \/ ProcJoin
    \/ ProcSaveCharacter
    \/ ProcSaveKillmail
    \/ ProcStop
    \/ ProcDrop

\* the Processor task and the tasks of its JoinSet
ProcNext ==
    \/ ProcCore
    \/ \E kind \in LogKinds : ProcLog(kind)

\* The program of main.rs: the Processor, the three producers, the callback
\* that fills user_store and the Stop at the end of main, over a database
\* that holds accounts already (nothing in this program stores one).
Init ==
    /\ InitState([i \in 1..MaxStored |-> StoredUser(i, 0)], {}, "off", "send", "recv")
    /\ arg = <<>>
    /\ ret = <<>>

\* the program is followed until the first sleep of a producer has ended
MainSpan == ProdSleep("refresh_send")

\* the clock of the program
MainTimeAdvance == now < MainSpan /\ TimeAdvance

Next ==
    \/ ProdNext
    \/ MainTimeAdvance
    \/ MainCallback
    \/ MainNext
    \/ ProcNext

Spec == Init /\ [][Next]_vars

\* the runtime polls every task that can take a step: the Processor with its
\* spawned tasks, the producers and main at its send; the server may go on
\* serving and HTTP requests need not arrive
FairSpec ==
    /\ Spec
    /\ WF_vars(ProcNext)
    /\ WF_vars(ProdNext)
    /\ WF_vars(MainSendStop)
    /\ WF_vars(RuntimeDrop)

SchedNext ==
    \/ \E k \in {"refresh", "fetch"} : SchedTick(k)
    \/ SchedTickResolve
    \/ SchedSend

\* The service: the producers are the scheduler's first ticks, the HTTP
\* handlers, the Stop of the shutdown and the Processor's own fan-out, from
\* an empty database.
InitService == InitWith(<<>>, {})

NextService ==
    \/ SchedNext
    \/ ServiceNext
    \/ HttpRefresh
    \/ HttpKillmails
    \/ HttpCallback
    \/ ProcCore

SpecService == InitService /\ [][NextService]_vars

\* The scheduler over time: the clock, the three timers, the stop signal and
\* the channel, with the Processor consuming the scheduler's jobs over an
\* empty database.
InitSched == InitWith(<<>>, {})

NextSched ==
    \/ SchedNext
    \/ SchedStop
    \/ Cancel
    \/ TimeAdvance
    \/ ServiceNext
    \/ ProcRefresh
    \/ ProcKillmails
    \/ ProcStop
    \/ ProcDrop

SpecSched == InitSched /\ [][NextSched]_vars

\* The scheduler over time in the service under load: the trigger routes of
\* http::handlers enqueue into the same channel as the scheduler.
NextSchedHttp ==
    \/ NextSched
    \/ HttpRefresh
    \/ HttpKillmails

SpecSchedHttp == InitSched /\ [][NextSchedHttp]_vars

\* the runtime polls the scheduler task once its stop branch is ready
FairSpecSched == SpecSched /\ WF_vars(SchedStop)

\* Killmail resolution: the resolve trigger, the Stop of the shutdown, the
\* fan-out of resolve_killmails and the entity saves, over a database of
\* killmail references.
InitResolve == \E ks \in SUBSET KmIds : InitWith(<<>>, ks)

NextResolve ==
    \/ HttpResolve
    \/ ServiceNext
    \/ ProcStop
    \/ ProcResolve
    \/ \E i \in DOMAIN tasks : TaskFetchDetail(i)
    \/ \E i \in DOMAIN tasks : TaskSend(i)
    \/ ProcJoin
    \/ ProcSaveEntity
    \/ ProcDrop

SpecResolve == InitResolve /\ [][NextResolve]_vars

\* Killmail discovery: the killmails trigger, the Stop of the shutdown, the
\* fan-out of get_killmails and the killmail saves, over a database of
\* accounts.
InitFetch == \E rs \in StoredTables(MaxUsers, {0}) : InitWith(rs, {})

NextFetch ==
    \/ HttpKillmails
    \/ ServiceNext
    \/ ProcStop
    \/ ProcKillmails
    \/ \E i \in DOMAIN tasks : TaskFetchKillmails(i)
    \/ \E i \in DOMAIN tasks : TaskSend(i)
    \/ ProcJoin
    \/ ProcSaveKillmail
    \/ ProcDrop

SpecFetch == InitFetch /\ [][NextFetch]_vars

\* Token refresh: the refresh trigger, the Stop of the shutdown, the batch
\* of EsiClient::refresh and the account saves, over a database of accounts
\* inside and outside the refresh window.
InitRefresh == \E rs \in StoredTables(MaxUsers, StoredExpiries) : InitWith(rs, {})

NextRefresh ==
    \/ HttpRefresh
    \/ ServiceNext
    \/ ProcStop
    \/ ProcRefresh
    \/ ProcExchange
    \/ ProcRefreshSend
    \/ ProcSaveCharacter
    \/ ProcDrop

SpecRefresh == InitRefresh /\ [][NextRefresh]_vars

\* The OAuth callback on a given request, with the Stop of the shutdown and
\* the Processor saving the account, from an empty database.
InitCallback == InitCall(CallbackRequests)

NextCallback ==
    \/ HttpCallbackOn
    \/ ServiceNext
    \/ ProcSaveCharacter
    \/ ProcStop
    \/ ProcDrop

SpecCallback == InitCallback /\ [][NextCallback]_vars

(* ---------------------- entity extraction alone ---------------------- *)
\* victim objects with any choice of the five identifier fields
VictimObjects ==
    [character_id : OptIds, corporation_id : OptIds, alliance_id : OptIds,
     weapon_type_id : OptIds, ship_type_id : OptIds]

\* attacker objects with any choice of the four identifier fields read
AttackerObjects ==
    [character_id : OptIds, corporation_id : OptIds, alliance_id : OptIds,
     ship_type_id : OptIds]

\* a killmail document
Doc(s, v, as) == [solar_system_id |-> s, victim |-> v, attackers |-> as]

\* the killmail {solar_system_id: 30000142, victim: {character_id: 1,
\* corporation_id: 10}, attackers: [{character_id: 2, ship_type_id: 600}]}
ExampleDoc ==
    Doc(<<30000142>>,
        <<[character_id |-> <<1>>, corporation_id |-> <<10>>, alliance_id |-> <<>>,
           weapon_type_id |-> <<>>, ship_type_id |-> <<>>]>>,
        <<[character_id |-> <<2>>, corporation_id |-> <<>>, alliance_id |-> <<>>,
           ship_type_id |-> <<600>>]>>)

\* attackers that carry a character identifier only
PlainAttackers == {Attacker(c) : c \in OptIds \ {<<>>}}

\* attackers arrays: one attacker of any kind, alone, twice, or before or
\* after a plain one
AttackerArrays ==
    {<<>>} \cup {<<a>> : a \in AttackerObjects}
    \cup {<<a, a>> : a \in AttackerObjects}
    \cup {<<a, b>> : a \in AttackerObjects, b \in PlainAttackers}
    \cup {<<b, a>> : a \in AttackerObjects, b \in PlainAttackers}

\* the documents get_killmail_data is run on: every victim with no or one
\* plain attacker, every attackers array with no or a plain victim, and the
\* example
ExtractDocs ==
    { Doc(s, <<v>>, as) :
        s \in OptIds, v \in VictimObjects, as \in {<<>>, <<Attacker(<<1>>)>>} }
    \cup { Doc(s, v, as) :
        s \in OptIds, v \in {<<>>, <<Victim(<<1>>)>>}, as \in AttackerArrays }
    \cup {ExampleDoc}

\* get_killmail_data as a holder of the client's Sender
Extractor == Sender("get_killmail_data", 0)

\* get_killmail_data after a successful request, up to its send loop: the
\* entities vector, and of the loop the jobs it has left to send (out), the
\* jobs it has placed (sent) and the sends that returned an Err (failed)
GetKillmailData ==
    /\ ret = <<>>
    /\ arg # <<>>
    /\ ret' = <<[entities |-> ExtractEntities(arg), out |-> EntityJobs(arg),
                 sent |-> <<>>, failed |-> 0]>>
    /\ UNCHANGED <<now, arg, chanVars, procVars, storeVars, schedVars,
                   cancelVars, mainVars, httpVars>>

\* the send loop of get_killmail_data: jobs_sender.send(SaveEntity(entity))
\* .await is polled; an Err is logged and the loop goes on
GetKillmailDataSend ==
    /\ ret # <<>>
    /\ ret[1].out # <<>>
    /\ SendPollable(Extractor)
    /\ BlockingSend(Extractor, Head(ret[1].out))
    /\ ret' = IF ~SendReady(Extractor) THEN ret
              ELSE <<[entities |-> ret[1].entities,
                      out |-> Tail(ret[1].out),
                      sent |-> IF Closed THEN ret[1].sent
                               ELSE Append(ret[1].sent, Head(ret[1].out)),
                      failed |-> ret[1].failed + (IF Closed THEN 1 ELSE 0)]>>
    /\ UNCHANGED <<now, arg, procVars, storeVars, schedVars,
                   cancelVars, mainVars, httpVars>>

\* get_killmail_data has returned Ok(())
ExtractReturned == ret # <<>> /\ ret[1].out = <<>>

\* get_killmail_data run on a document, with the Processor saving the
\* entities or gone after a Stop
InitExtract ==
    /\ \E cp \in {"recv", "stopped"} : InitState(<<>>, {}, "select", "off", cp)
    /\ arg \in ExtractDocs
    /\ ret = <<>>

NextExtract ==
    \/ GetKillmailData
    \/ GetKillmailDataSend
    \/ ProcSaveEntity
    \/ ProcDrop

SpecExtract == InitExtract /\ [][NextExtract]_vars

(* -------------------------- token validation -------------------------- *)
\* Timestamps of this section are whole days since the epoch.  A string is
\* a sequence of pieces: a decimal digit, a sign, the letter "x" (any
\* other character) or the subject prefix as one piece.
PREFIX == "CHARACTER:EVE:"
DIGITS == <<"0", "1", "2", "3", "4", "5", "6", "7", "8", "9">>
Digit == {DIGITS[i] : i \in 1..10}
DigitVal(c) == (CHOOSE i \in 1..10 : DIGITS[i] = c) - 1

\* i64::MAX = 9223372036854775807 and the magnitude of i64::MIN
I64_MAX == <<"9", "2", "2", "3", "3", "7", "2", "0", "3", "6", "8", "5", "4",
             "7", "7", "5", "8", "0", "7">>
I64_MIN == [I64_MAX EXCEPT ![19] = "8"]

\* chrono: the last day of DateTime::<Utc>::MAX_UTC (262142-12-31)
MAX_UTC_DAY == 95026236
\* chrono: the first day of DateTime::<Utc>::MIN_UTC (-262143-01-01)
MIN_UTC_DAY == -96465292

\* str::replace(PREFIX, ""): every occurrence of the prefix is removed
Replace(s) == SelectSeq(s, LAMBDA c : c # PREFIX)

RECURSIVE StripZeros(_)
StripZeros(ds) ==
    IF ds # <<>> /\ Head(ds) = "0" THEN StripZeros(Tail(ds)) ELSE ds

\* a <= b for two numerals of the same length
RECURSIVE NumeralLeq(_, _)
NumeralLeq(a, b) ==
    IF a = <<>> THEN TRUE
    ELSE IF Head(a) # Head(b) THEN DigitVal(Head(a)) < DigitVal(Head(b))
    ELSE NumeralLeq(Tail(a), Tail(b))

\* the numeral fits below the limit (both without leading zeros)
Fits(ds, limit) ==
    \/ Len(ds) < Len(limit)
    \/ Len(ds) = Len(limit) /\ NumeralLeq(ds, limit)

RECURSIVE NumeralValue(_, _)
NumeralValue(ds, acc) ==
    IF ds = <<>> THEN acc
    ELSE NumeralValue(Tail(ds), 10 * acc + DigitVal(Head(ds)))

\* str::parse::<i64>: an optional sign, then one or more decimal digits;
\* Err (<<>>) on anything else and on overflow
ParseI64(s) ==
    LET neg == s # <<>> /\ Head(s) = "-"
        signed == s # <<>> /\ Head(s) \in {"+", "-"}
        ds == IF signed THEN Tail(s) ELSE s
        mag == StripZeros(ds)
    IN  IF ds = <<>> \/ \E i \in 1..Len(ds) : ds[i] \notin Digit THEN <<>>
        ELSE IF ~Fits(mag, IF neg THEN I64_MIN ELSE I64_MAX) THEN <<>>
        ELSE <<(IF neg THEN -1 ELSE 1) * NumeralValue(mag, 0)>>

\* Option::unwrap_or
UnwrapOr(o, d) == IF o = <<>> THEN d ELSE o[1]

\* DateTime::from_timestamp(secs, 0): None outside the range of DateTime<Utc>
FromTimestamp(t) ==
    IF MIN_UTC_DAY <= t /\ t <= MAX_UTC_DAY THEN <<t>> ELSE <<>>

\* JSON values of the token's claims
Str(s) == [type |-> "string", v |-> s]
Num(n) == [type |-> "number", v |-> n]
Arr(S) == [type |-> "array", v |-> S]

\* the issuers validate_jwt accepts
AcceptedIssuers == {"login.eveonline.com", "https://login.eveonline.com"}
\* validations.set_audience: self.app_id and the provider's literal
AcceptedAudiences == {"app_id", "EVE Online"}

\* the answers of the provider's key-set endpoint
JwksOutcomes == {"fetch_err", "no_keys", "no_rs256", "bad_jwk", "ok"}

\* get_rsa256_key: the request or its JSON body fails (Err), the body has
\* no "keys" array (unwrap panics), no key has alg RS256 (Err), the key is
\* not a valid JWK (Err), or a decoding key is returned
GetRsa256Key(jwks) ==
    CASE jwks = "fetch_err" -> "Err"
      [] jwks = "no_keys" -> "panic"
      [] jwks = "no_rs256" -> "Err"
      [] jwks = "bad_jwk" -> "Err"
      [] jwks = "ok" -> "Ok"

\* jsonwebtoken::decode under Validation::new(RS256) with required claims
\* {sub} and the audience set: the token is a JWT signed by the key, sub is
\* present, exp if present is not in the past, aud if present has an
\* accepted audience
Decode(tok, clock) ==
    /\ tok.sig = "ok"
    /\ tok.sub # <<>>
    /\ tok.exp # <<>> => ~(tok.exp[1] < clock)
    /\ tok.aud # <<>> =>
          \/ tok.aud[1].type = "string" /\ tok.aud[1].v \in AcceptedAudiences
          \/ tok.aud[1].type = "array" /\ tok.aud[1].v \cap AcceptedAudiences # {}

\* token.claims["iss"].as_str()
IssAsStr(tok) ==
    IF tok.iss # <<>> /\ tok.iss[1].type = "string" THEN <<tok.iss[1].v>> ELSE <<>>

IssuerAny(iss) == TRUE
IssuerAccepted(iss) == iss \in AcceptedIssuers

\* serde_json::from_value::<Claims>: aud an array, exp a number, iss and
\* sub strings, all present
FromValue(tok) ==
    IF /\ tok.aud # <<>> /\ tok.aud[1].type = "array"
       /\ tok.exp # <<>>
       /\ tok.iss # <<>> /\ tok.iss[1].type = "string"
       /\ tok.sub # <<>>
    THEN <<[aud |-> tok.aud[1].v, exp |-> tok.exp[1], iss |-> tok.iss[1].v,
            sub |-> tok.sub[1]]>>
    ELSE <<>>

Ok(v) == [tag |-> "Ok", val |-> <<v>>]
Err == [tag |-> "Err", val |-> <<>>]
Panic == [tag |-> "panic", val |-> <<>>]

\* a validation that does not look at the outcome of decode
ValidateJwtNoDecode(jwks, tok, clock) ==
    IF GetRsa256Key(jwks) # "Ok" THEN Panic
    ELSE IF IssAsStr(tok) = <<>> THEN Panic
    ELSE IF ~IssuerAccepted(IssAsStr(tok)[1]) THEN Err
    ELSE IF FromValue(tok) = <<>> THEN Err
    ELSE Ok(FromValue(tok)[1])

\* EsiClient::validate_jwt
ValidateJwt(jwks, tok, clock) ==
    IF GetRsa256Key(jwks) # "Ok" THEN Panic
    ELSE IF ~Decode(tok, clock) THEN Err
    ELSE IF IssAsStr(tok) = <<>> THEN Panic
    ELSE IF ~IssuerAccepted(IssAsStr(tok)[1]) THEN Err
    ELSE IF FromValue(tok) = <<>> THEN Err
    ELSE Ok(FromValue(tok)[1])

\* User::new; the row's uuid is left out
NewUser(access_token, refresh_token, claims, utcnow) ==
    [character_id |-> UnwrapOr(ParseI64(Replace(claims.sub)), 0),
     access_token |-> access_token,
     refresh_token |-> refresh_token,
     expires_at |-> UnwrapOr(FromTimestamp(claims.exp), 0),
     created_at |-> utcnow,
     updated_at |-> utcnow,
     last_fetched |-> <<>>]

\* an exchange that refuses a subject without an integer and an expiry
\* outside the range of DateTime<Utc>
TokenExchangeStrict(resp, jwks, clock) ==
    IF resp.http = "send_err" THEN Err
    ELSE IF resp.http = "bad_json" THEN Err
    ELSE LET v == ValidateJwt(jwks, resp.access_token, clock)
         IN  IF v.tag # "Ok" THEN v
             ELSE IF ParseI64(Replace(v.val[1].sub)) = <<>> THEN Err
             ELSE IF FromTimestamp(v.val[1].exp) = <<>> THEN Err
             ELSE Ok(NewUser(resp.access_token, resp.refresh_token, v.val[1], clock))

\* EsiClient::token_exchange on the provider's answer: the request fails
\* ("send_err"), Self::json returns Err on a status that is no success or a
\* body that is not JSON ("bad_json"), or the body's access_token goes to
\* validate_jwt
TokenExchange(resp, jwks, clock) ==
    IF resp.http = "send_err" THEN Err
    ELSE IF resp.http = "bad_json" THEN Err
    ELSE LET v == ValidateJwt(jwks, resp.access_token, clock)
         IN  IF v.tag = "Ok"
             THEN Ok(NewUser(resp.access_token, resp.refresh_token, v.val[1], clock))
             ELSE v

\* subjects: the provider's format with a small, a zero-padded and a
\* too large identifier (i64::MAX + 1), a negative one, the prefix inside
\* the digits, no digits at all, and other text
Subjects ==
    {<<PREFIX, "7">>, <<PREFIX, "0", "4", "2">>,
     <<PREFIX>> \o [I64_MAX EXCEPT ![19] = "8"],
     <<PREFIX, "-", "5">>, <<"1", PREFIX, "2">>, <<PREFIX>>, <<PREFIX, "x", "1">>}

Sigs == {"ok", "bad", "malformed"}
OptSubjects == {<<>>} \cup {<<s>> : s \in Subjects}
\* the clock of the run is day 1: day 0 is past, the others are not
OptExps == {<<>>} \cup {<<t>> : t \in {0, 1, MAX_UTC_DAY, MAX_UTC_DAY + 1}}
OptAuds ==
    {<<>>, <<Str("EVE Online")>>, <<Arr({"app_id"})>>, <<Arr({"other"})>>}
OptIssuers ==
    {<<>>, <<Num(1)>>, <<Str("evil.example")>>} \cup
    {<<Str(s)>> : s \in AcceptedIssuers}

Tokens == [sig : Sigs, sub : OptSubjects, exp : OptExps, aud : OptAuds,
           iss : OptIssuers]

\* a token the provider issues for character 7
GoodToken ==
    [sig |-> "ok", sub |-> <<<<PREFIX, "7">>>>, exp |-> <<1>>,
     aud |-> <<Arr({"app_id"})>>, iss |-> <<Str("login.eveonline.com")>>]

\* the calls: every token with the key set at hand and a JSON answer, and
\* the provider's token and one of a foreign issuer under every answer
ExchangeCalls ==
    [resp : [http : {"json"}, access_token : Tokens, refresh_token : {"r"}],
     jwks : {"ok"}, clock : {1}]
    \cup
    [resp : [http : {"send_err", "bad_json", "json"},
             access_token : {GoodToken, [GoodToken EXCEPT !.iss = <<Str("evil.example")>>]},
             refresh_token : {"r"}],
     jwks : JwksOutcomes, clock : {1}]

\* validate_jwt run on the access token of the call
ValidateJwtCall ==
    /\ ret = <<>>
    /\ arg # <<>>
    /\ ret' = <<[op |-> "validate",
                 res |-> ValidateJwt(arg.jwks, arg.resp.access_token, arg.clock)]>>
    /\ UNCHANGED <<now, arg, chanVars, procVars, storeVars, schedVars,
                   cancelVars, mainVars, httpVars>>

\* token_exchange run on the call
TokenExchangeCall ==
    /\ ret = <<>>
    /\ arg # <<>>
    /\ ret' = <<[op |-> "exchange",
                 res |-> TokenExchange(arg.resp, arg.jwks, arg.clock)]>>
    /\ UNCHANGED <<now, arg, chanVars, procVars, storeVars, schedVars,
                   cancelVars, mainVars, httpVars>>

InitToken == InitCall(ExchangeCalls)

NextToken ==
    \/ ValidateJwtCall
    \/ TokenExchangeCall

SpecToken == InitToken /\ [][NextToken]_vars

(* --------------------------- the users table -------------------------- *)
\* the accounts a SaveCharacter job can carry, built by User::new at time t
UsersAt(t) ==
    [character_id : Chars, access_token : {"a1", "a2"}, refresh_token : {"r1", "r2"},
     expires_at : {t + 1, t + 2}, created_at : {t}, updated_at : {t},
     last_fetched : {<<>>}]

\* Job::SaveCharacter(user) handled on its own, one clock tick after the
\* account was built: arg keeps the job's account, ret the outcome
SaveCharacter ==
    /\ proc_pc = "recv"
    /\ now < MaxTicks
    /\ now' = now + 1
    /\ \E user \in UsersAt(now), r \in SaveOutcomes :
        /\ arg' = user
        /\ ret' = <<r>>
        /\ CASE r = "pool_err" ->
                  /\ proc_pc' = "panicked"
                  /\ UNCHANGED rows
             [] r = "db_err" -> UNCHANGED <<rows, proc_pc>>
             [] r = "ok" ->
                  /\ rows' = SaveUser(rows, user, now')
                  /\ UNCHANGED proc_pc
    /\ UNCHANGED <<chanVars, cur, todo, tasks, skipped, started, finished,
                   discarded, killmails, entities, schedVars, cancelVars, mainVars,
                   httpVars>>

InitStore == InitCall({<<>>})

NextStore == SaveCharacter

SpecStore == InitStore /\ [][NextStore]_vars

(* ------------------------- the killmails table ------------------------ *)
\* the rows with the killmail id (the primary key of the table)
KillmailRowOf(rs, k) == {i \in DOMAIN rs : rs[i].killmail_id = k}

\* insert into killmails values (killmail) on conflict (killmail_id) do
\* update: the stored row takes the hash and the status of the new one
SaveKillmailUpsert(rs, killmail) ==
    IF KillmailRowOf(rs, killmail.killmail_id) = {}
    THEN [rows |-> Append(rs, killmail), res |-> Ok(1)]
    ELSE [rows |-> [i \in DOMAIN rs |->
                      IF rs[i].killmail_id = killmail.killmail_id THEN killmail
                      ELSE rs[i]],
          res |-> Ok(1)]

\* save_killmail: insert into killmails values (killmail) on conflict do
\* nothing; the result is the number of rows inserted
SaveKillmail(rs, killmail) ==
    IF KillmailRowOf(rs, killmail.killmail_id) = {}
    THEN [rows |-> Append(rs, killmail), res |-> Ok(1)]
    ELSE [rows |-> rs, res |-> Ok(0)]

\* set_killmail_status: update killmails set status where killmail_id = id;
\* the result is the number of rows updated
SetKillmailStatus(rs, killmail_id, status) ==
    [rows |-> [i \in DOMAIN rs |->
                 IF rs[i].killmail_id = killmail_id
                 THEN [rs[i] EXCEPT !.status = status]
                 ELSE rs[i]],
     res |-> Ok(Cardinality(KillmailRowOf(rs, killmail_id)))]

\* the references get_personal_killmails builds from a listing: status new
ListedKillmails ==
    [killmail_id : KmIds, killmail_hash : {"h1", "h2"}, status : {"new"}]

\* the statuses a reference is advanced to
LaterStatuses == {"resolved", "failed"}

\* Job::SaveKillmail(killmail) handled on its own: arg keeps the job's
\* reference, ret the outcome of the storage call and its result
SaveKillmailJob ==
    /\ proc_pc = "recv"
    /\ now < MaxTicks
    /\ now' = now + 1
    /\ \E killmail \in ListedKillmails, r \in SaveOutcomes :
        /\ arg' = killmail
        /\ CASE r = "pool_err" ->
                  /\ proc_pc' = "panicked"
                  /\ ret' = <<[op |-> "save", env |-> r, res |-> Panic]>>
                  /\ UNCHANGED <<rows, killmails>>
             [] r = "db_err" ->
                  /\ ret' = <<[op |-> "save", env |-> r, res |-> Err]>>
                  /\ UNCHANGED <<rows, killmails, proc_pc>>
             [] r = "ok" ->
                  /\ rows' = SaveKillmail(rows, killmail).rows
                  /\ ret' = <<[op |-> "save", env |-> r, res |-> SaveKillmail(rows, killmail).res]>>
                  /\ killmails' = SaveKillmailRow(killmail.killmail_id)
                  /\ UNCHANGED proc_pc
    /\ UNCHANGED <<chanVars, cur, todo, tasks, skipped, started, finished,
                   discarded, entities, schedVars, cancelVars, mainVars,
                   httpVars>>

\* set_killmail_status run on the table
SetKillmailStatusCall ==
    /\ proc_pc = "recv"
    /\ now < MaxTicks
    /\ now' = now + 1
    /\ \E k \in KmIds, st \in LaterStatuses, r \in SaveOutcomes :
        /\ arg' = [killmail_id |-> k, killmail_hash |-> "", status |-> st]
        /\ CASE r = "pool_err" ->
                  /\ proc_pc' = "panicked"
                  /\ ret' = <<[op |-> "status", env |-> r, res |-> Panic]>>
                  /\ UNCHANGED rows
             [] r = "db_err" ->
                  /\ ret' = <<[op |-> "status", env |-> r, res |-> Err]>>
                  /\ UNCHANGED <<rows, proc_pc>>
             [] r = "ok" ->
                  /\ rows' = SetKillmailStatus(rows, k, st).rows
                  /\ ret' = <<[op |-> "status", env |-> r, res |-> SetKillmailStatus(rows, k, st).res]>>
                  /\ UNCHANGED proc_pc
    /\ UNCHANGED <<chanVars, cur, todo, tasks, skipped, started, finished,
                   discarded, killmails, entities, schedVars, cancelVars, mainVars, httpVars>>

InitKillmails == InitCall({<<>>})

NextKillmails ==
    \/ SaveKillmailJob
    \/ SetKillmailStatusCall

SpecKillmails == InitKillmails /\ [][NextKillmails]_vars

(* ------------------------- the entities table ------------------------- *)
\* the rows with the entity id (the primary key of the table)
EntityRowOf(rs, id) == {i \in DOMAIN rs : rs[i].id = id}

\* a table whose key is (id, type): the entity is inserted unless a row
\* holds its identifier and its type
SaveEntityByType(rs, entity) ==
    IF {i \in DOMAIN rs : rs[i].id = entity.id /\ rs[i].type_ = entity.type_} = {}
    THEN [rows |-> Append(rs, entity), res |-> Ok(1)]
    ELSE [rows |-> rs, res |-> Ok(0)]

\* insert into entities values (entity) on conflict (id) do update: the
\* stored row takes the name and the type of the new one
SaveEntityUpsert(rs, entity) ==
    IF EntityRowOf(rs, entity.id) = {}
    THEN [rows |-> Append(rs, entity), res |-> Ok(1)]
    ELSE [rows |-> [i \in DOMAIN rs |-> IF rs[i].id = entity.id THEN entity ELSE rs[i]],
          res |-> Ok(1)]

\* save_entity: insert into entities values (entity) on conflict do
\* nothing; the result is the number of rows inserted
SaveEntity(rs, entity) ==
    IF EntityRowOf(rs, entity.id) = {}
    THEN [rows |-> Append(rs, entity), res |-> Ok(1)]
    ELSE [rows |-> rs, res |-> Ok(0)]

\* the type tags get_killmail_data gives its entities
EntityTypes ==
    {"solar_system", "character", "corporation", "alliance", "ship_type",
     "weapon_type"}

\* models::Entity values with a non-sentinel id, with and without a name
Entities == [id : 1..MaxId, name : {"", "name"}, type_ : EntityTypes]

\* save_entity run on the table: arg keeps the entity, ret the outcome of
\* the storage call and its result
SaveEntityCall ==
    /\ proc_pc = "recv"
    /\ now < MaxTicks
    /\ now' = now + 1
    /\ \E entity \in Entities, r \in SaveOutcomes :
        /\ arg' = entity
        /\ CASE r = "pool_err" ->
                  /\ proc_pc' = "panicked"
                  /\ ret' = <<[op |-> "save", env |-> r, res |-> Panic]>>
                  /\ UNCHANGED <<rows, entities>>
             [] r = "db_err" ->
                  /\ ret' = <<[op |-> "save", env |-> r, res |-> Err]>>
                  /\ UNCHANGED <<rows, entities, proc_pc>>
             [] r = "ok" ->
                  /\ rows' = SaveEntity(rows, entity).rows
                  /\ ret' = <<[op |-> "save", env |-> r, res |-> SaveEntity(rows, entity).res]>>
                  /\ entities' = SaveEntityRow(entity.id, entity.type_)
                  /\ UNCHANGED proc_pc
    /\ UNCHANGED <<chanVars, cur, todo, tasks, skipped, started, finished,
                   discarded, killmails, schedVars, cancelVars, mainVars,
                   httpVars>>

InitEntities == InitCall({<<>>})

NextEntities == SaveEntityCall

SpecEntities == InitEntities /\ [][NextEntities]_vars

(* ------------------- from the exchange to the save job ----------------- *)
\* a callback request or a refresh, with the provider's answer to the
\* token request it makes
AccountCalls ==
    [call : ExchangeCalls, cookie : {<<"n1">>}, state : {<<"n1">>, <<"n2">>}]

\* handler callback on the request arg: past the nonce check the code is
\* exchanged, and the user of an Ok goes to try_send(SaveCharacter); the
\* response is 400 on the nonce check, 200 after an exchange that returned,
\* and none (status <<>>) when the exchange panics and the handler unwinds
HttpCallbackExchange ==
    /\ main_pc = "serving"
    /\ ret = <<>>
    /\ arg # <<>>
    /\ nHttp' = nHttp + 1
    /\ IF ~NonceOk(arg.cookie, arg.state)
       THEN /\ ret' = <<[op |-> "callback", status |-> <<400>>, exchanged |-> FALSE, res |-> Err]>>
            /\ UNCHANGED <<chanVars, rejected>>
       ELSE LET res == TokenExchange(arg.call.resp, arg.call.jwks, arg.call.clock) IN
            /\ ret' = <<[op |-> "callback",
                         status |-> IF res.tag = "panic" THEN <<>> ELSE <<200>>,
                         exchanged |-> TRUE, res |-> res]>>
            /\ IF res.tag = "Ok"
               THEN TrySend(Job("SaveCharacter", res.val[1].character_id, res.val[1]))
               ELSE UNCHANGED <<chanVars, rejected>>
    /\ UNCHANGED <<now, arg, procVars, storeVars, schedVars, cancelVars, mainVars>>

\* EsiClient::refresh: token_exchange(RefreshToken) of the next user, with
\* the provider's answer of arg; the new user takes its place at the head of
\* the batch until it is sent
ProcExchangeOn ==
    /\ proc_pc = "refresh"
    /\ ret = <<>>
    /\ arg # <<>>
    /\ LET res == TokenExchange(arg.call.resp, arg.call.jwks, arg.call.clock) IN
       /\ ret' = <<[op |-> "refresh", status |-> <<>>, exchanged |-> TRUE, res |-> res]>>
       /\ CASE res.tag = "Err" ->
                 /\ todo' = Tail(todo)
                 /\ IF Tail(todo) = <<>> THEN Finish(cur)
                    ELSE UNCHANGED <<proc_pc, finished>>
                 /\ UNCHANGED <<queue, waiters, discarded>>
            [] res.tag = "panic" ->
                 /\ EndTask("panicked", queue)
                 /\ UNCHANGED <<todo, finished>>
            [] res.tag = "Ok" ->
                 /\ proc_pc' = "refresh_send"
                 /\ todo' = <<res.val[1]>> \o Tail(todo)
                 /\ UNCHANGED <<queue, waiters, finished, discarded>>
    /\ UNCHANGED <<now, arg, skipped, nAccepted, cur, tasks, started, storeVars,
                   schedVars, cancelVars, mainVars, httpVars>>

\* one stored account inside the refresh window, and one answer of the provider
InitAccount ==
    /\ InitState(<<StoredUser(1, 0)>>, {}, "select", "off", "recv")
    /\ arg \in AccountCalls
    /\ ret = <<>>

NextAccount ==
    \/ HttpRefresh
    \/ HttpCallbackExchange
    \/ ProcRefresh
    \/ ProcExchangeOn
    \/ ProcRefreshSend
    \/ ProcSaveCharacter
    \/ ProcDrop

SpecAccount == InitAccount /\ [][NextAccount]_vars

(* ------------------------- the refresh window -------------------------- *)
\* the refresh-token request as the provider sees it: the character, the
\* refresh token submitted, the acceptance number of the Refresh job that
\* made it, and whether a new token pair was given for it
TokenRequest(c, tok, job, issued) ==
    [character_id |-> c, submitted |-> tok, job |-> job, issued |-> issued]

\* EsiClient::refresh: token_exchange(RefreshToken(user.refresh_token)) of
\* the next user; ret keeps the requests made, and the new user takes the
\* place of the old one until it is sent.  The provider answers the POST
\* before validate_jwt runs, and token_exchange does not look whether the
\* answer carries a token (a missing access_token is validated as "null"):
\* a pair was issued when the exchange returns Ok, while an Err and a panic
\* of validate_jwt come either from an answer without a pair or from a
\* validation of the pair the provider issued
ProcExchangeUser ==
    /\ proc_pc = "refresh"
    /\ \E r \in ExchangeOutcomes, issued \in BOOLEAN :
        /\ r = "ok" => issued
        /\ ret' = Append(ret, TokenRequest(Head(todo).character_id,
                                           Head(todo).refresh_token, cur.seq, issued))
        /\ CASE r = "err" ->
                   /\ todo' = Tail(todo)
                   /\ IF Tail(todo) = <<>> THEN Finish(cur)
                      ELSE UNCHANGED <<proc_pc, finished>>
                   /\ UNCHANGED <<queue, waiters, discarded>>
             [] r = "jwks_panic" ->
                   /\ EndTask("panicked", queue)
                   /\ UNCHANGED <<todo, finished>>
             [] r = "ok" ->
                   /\ proc_pc' = "refresh_send"
                   /\ todo' = <<IssuedUser(Head(todo).character_id, Len(ret'), now)>>
                                \o Tail(todo)
                   /\ UNCHANGED <<queue, waiters, finished, discarded>>
    /\ UNCHANGED <<now, arg, skipped, nAccepted, cur, tasks, started, storeVars,
                   schedVars, cancelVars, mainVars, httpVars>>

\* handler callback of a new authorization of a character: the code is
\* exchanged and the user of the Ok goes to try_send(SaveCharacter); a
\* callback whose exchange fails sends nothing and leaves every variable of
\* this specification as it is
HttpCallbackUser ==
    /\ main_pc = "serving"
    /\ nHttp < MaxHttp
    /\ nHttp' = nHttp + 1
    /\ \E c \in 1..MaxStored :
        TrySend(Job("SaveCharacter", c, IssuedUser(c, 0 - nHttp', now)))
    /\ UNCHANGED <<now, callVars, procVars, storeVars, schedVars, cancelVars, mainVars>>

\* Refresh jobs over the users table with its tokens and expiry times: two
\* Refresh jobs are in the channel already, new authorizations come over
\* HTTP, and the clock runs with no scheduler.
InitRotation ==
    /\ now = 0
    /\ queue = <<[Job("Refresh", 0, "") EXCEPT !.seq = 1],
                 [Job("Refresh", 0, "") EXCEPT !.seq = 2]>>
    /\ nAccepted = 2
    /\ waiters = <<>>
    /\ proc_pc = "recv"
    /\ cur = NoJob
    /\ todo = <<>>
    /\ tasks = <<>>
    /\ skipped = FALSE
    /\ started = 0
    /\ finished = 0
    /\ discarded = 0
    /\ rows \in StoredTables(MaxStored, StoredExpiries)
    /\ killmails = {}
    /\ entities = [i \in 0..MaxId |-> ""]
    /\ sched_pc = "off"
    /\ sched_job = "refresh"
    /\ deadline = [k \in Timers |-> 0]
    /\ lastFire = [k \in Timers |-> -1]
    /\ sends = [k \in Timers |-> 0]
    /\ enq = [k \in Timers |-> 0]
    /\ stop_signal = FALSE
    /\ idleCancel = FALSE
    /\ afterCancel = 0
    /\ main_pc = "serving"
    /\ prod = [p \in Producers |-> [pc |-> "off", i |-> 1, wake |-> 0]]
    /\ user_store = {}
    /\ nHttp = 0
    /\ rejected = 0
    /\ arg = <<>>
    /\ ret = <<>>

NextRotation ==
    \/ TimeAdvance
    \/ HttpCallbackUser
    \/ ProcRefresh
    \/ ProcExchangeUser
    \/ ProcRefreshSend
    \/ ProcSaveCharacter
    \/ ProcDrop

SpecRotation == InitRotation /\ [][NextRotation]_vars

(* ------------------------------- claims ------------------------------- *)
\* the Processor is inside the handling of a job
Handling == proc_pc \in {"refresh", "refresh_send", "join"}

\* C1: no failure inside the handling of a job ends the Processor task: the
\* consume loop never dies of a panic.
C1_FailureIsolation == proc_pc # "panicked"

\* C2: jobs are handled one at a time in the order of their acceptance: the
\* job being handled is the next one after the last finished, no later job
\* starts before it has finished, and the queue holds the following ones in
\* acceptance order.
C2_StrictFifo ==
    /\ started \in {finished, finished + 1}
    /\ proc_pc = "recv" => started = finished
    /\ Handling => started = finished + 1 /\ cur.seq = started
    /\ ~Closed => \A i \in DOMAIN queue : queue[i].seq = started + i

C2_Witness ==
    /\ proc_pc = "join"
    /\ finished >= 2
    /\ Len(queue) = QueueCapacity
    /\ \E i \in DOMAIN queue : queue[i].kind = "SaveKillmail"
    /\ \E i \in DOMAIN queue : queue[i].kind \in {"Refresh", "Killmails", "Stop"}

\* C3: the queue never holds more than QueueCapacity jobs, and a handler's
\* try_send on a full queue is rejected as full and leaves the queue as it was.
C3_Backpressure ==
    /\ [](Len(queue) <= QueueCapacity)
    /\ [][/\ (nHttp' # nHttp /\ Len(queue) = QueueCapacity /\ ~Closed)
             => (TryResult = "full" /\ queue' = queue /\ nAccepted' = nAccepted)
          /\ rejected' # rejected
             => (queue' = queue /\ nAccepted' = nAccepted
                 /\ rejected' = rejected + 1)]_vars

C3_Witness == rejected > 0 /\ Len(queue) = QueueCapacity /\ ~Closed

\* the tasks that use the blocking enqueue
Senders ==
    {Sched, MainTask, Refresher} \cup {Prod(p) : p \in Producers}
    \cup {Task(i) : i \in 1..MaxUsers}

\* C4: a blocking enqueue that is suspended on a full queue eventually
\* completes.
C4_BlockingEnqueueCompletes == \A w \in Senders : Waiting(w) ~> ~Waiting(w)

\* C5: once the Processor has dequeued a Stop job it is leaving or has left
\* its loop with every earlier job finished, it handles nothing more, and
\* when it has left the jobs behind Stop are gone with the channel, those
\* placed while it was leaving included.
C5_StopTerminal ==
    /\ [](cur.kind = "Stop"
          => /\ proc_pc \in {"stopping", "stopped"}
             /\ started = cur.seq
             /\ finished = started
             /\ todo = <<>> /\ tasks = <<>>
             /\ proc_pc = "stopped" => queue = <<>>)
    /\ [][cur.kind = "Stop"
          => /\ UNCHANGED <<cur, started, finished, todo, tasks, rows, killmails,
                            entities>>
             /\ proc_pc' \in {proc_pc, "stopped"}
             /\ proc_pc' # proc_pc => queue' = <<>> /\ discarded' = Len(queue)
             /\ proc_pc = "stopped" => UNCHANGED <<queue, nAccepted, discarded>>]_vars

\* the Processor has left on Stop after two other jobs, and the channel it
\* dropped was full: a suspended send placed its job while it was leaving
C5_Witness == proc_pc = "stopped" /\ discarded = QueueCapacity /\ finished >= 3

\* the number of ticks a timer has completed
Ticks(k) == deadline[k] \div Period(k)

\* C6: each of the three timers has started one enqueue of its job for every
\* tick it completed.
C6_OneJobPerTick == \A k \in Timers : sends[k] = Ticks(k)

\* the scenario of C7: the clock is at the discovery period, the refresh
\* timer has completed one tick and the discovery timer one, at the boundary,
\* and the scheduler is back at its select
OneTickEach ==
    /\ now = FETCH_INTERVAL
    /\ Ticks("refresh") = 1
    /\ Ticks("fetch") = 1
    /\ lastFire["fetch"] = FETCH_INTERVAL
    /\ sched_pc = "select"

\* C7: just past the discovery period, the refresh timer having fired once
\* and the discovery timer once at the boundary, exactly one Refresh job and
\* one FetchKillmails job have been enqueued, and no resolution job.
C7_OneRefreshOneFetch ==
    OneTickEach
        => enq["refresh"] = 1 /\ enq["fetch"] = 1 /\ enq["resolve"] = 0

\* C8: when the stop signal is sent while the scheduler waits idle in its
\* select, the scheduler starts no further enqueue, no timer branch becomes
\* ready before the stop branch is taken, and the task ends.
C8_IdleCancel ==
    /\ [](idleCancel
          => /\ afterCancel = 0
             /\ \/ sched_pc = "done"
                \/ sched_pc = "select" /\ \A k \in Timers : ~TimerReady(k))
    /\ (idleCancel ~> sched_pc = "done")

C8_Witness ==
    /\ idleCancel
    /\ sched_pc = "done"
    /\ now > 0
    /\ now < MaxTime
    /\ ~Closed

\* C9: a timer does not catch up: after a tick has completed, the timer's next
\* deadline is not one that had already passed when that tick completed.
C9_NoCatchUp == \A k \in Timers : deadline[k] >= lastFire[k]

\* C10: no SaveEntity job for the identifier 0 is in the queue, waiting to be
\* sent by a resolution task or being handled, and no entity 0 is stored.
C10_NoSentinel ==
    /\ \A i \in DOMAIN queue : queue[i].kind = "SaveEntity" => queue[i].a # 0
    /\ \A t \in DOMAIN tasks : \A i \in DOMAIN tasks[t].out :
          tasks[t].out[i].kind = "SaveEntity" => tasks[t].out[i].a # 0
    /\ cur.kind = "SaveEntity" => cur.a # 0
    /\ entities[0] = ""

C10_Witness ==
    /\ skipped
    /\ \E i \in DOMAIN queue : queue[i].kind = "SaveEntity"
    /\ \E i \in DOMAIN entities : entities[i] # ""

\* the categories read from a victim and from an attacker, in the claimed order
VictimOrder == <<"character", "corporation", "alliance", "weapon_type", "ship_type">>
AttackerOrder == <<"character", "corporation", "alliance", "ship_type">>

\* the identifier field of an object that belongs to a category
FieldOf(obj, type) ==
    CASE type = "character" -> obj.character_id
      [] type = "corporation" -> obj.corporation_id
      [] type = "alliance" -> obj.alliance_id
      [] type = "weapon_type" -> obj.weapon_type_id
      [] type = "ship_type" -> obj.ship_type_id

\* the categories of the order whose field the object carries
Carried(obj, order) == {i \in DOMAIN order : FieldOf(obj, order[i]) # <<>>}

\* seg lists exactly the carried fields of obj, each once, in the order given
InOrder(seg, obj, order) ==
    /\ Len(seg) = Cardinality(Carried(obj, order))
    /\ \A i \in DOMAIN seg :
          \E r \in Carried(obj, order) :
             /\ seg[i].type = order[r]
             /\ <<seg[i].id>> = FieldOf(obj, order[r])
             /\ \A j \in DOMAIN seg : j < i =>
                   \E q \in Carried(obj, order) : q < r /\ seg[j].type = order[q]

RECURSIVE CarriedBefore(_, _)
\* the number of fields carried by the first k attackers
CarriedBefore(as, k) ==
    IF k = 0 THEN 0
    ELSE CarriedBefore(as, k - 1) + Cardinality(Carried(as[k], AttackerOrder))

\* the number of fields the victim carries
CarriedByVictim(doc) ==
    IF doc.victim = <<>> THEN 0 ELSE Cardinality(Carried(doc.victim[1], VictimOrder))

\* the entities es are those of the document in the claimed order
ClaimedOrder(doc, es) ==
    LET nv == CarriedByVictim(doc)
        as == doc.attackers
    IN  /\ Len(es) = 1 + nv + CarriedBefore(as, Len(as))
        /\ es[1].type = "solar_system"
        /\ doc.solar_system_id # <<>> => <<es[1].id>> = doc.solar_system_id
        /\ doc.victim # <<>> => InOrder(SubSeq(es, 2, 1 + nv), doc.victim[1], VictimOrder)
        /\ \A k \in DOMAIN as :
              InOrder(SubSeq(es, 2 + nv + CarriedBefore(as, k - 1),
                             1 + nv + CarriedBefore(as, k)),
                      as[k], AttackerOrder)

\* C11: the entities of a killmail are emitted solar system first, then the
\* victim's fields, then the attackers in array order with each attacker's
\* fields in the order character, corporation, alliance, ship_type; the
\* SaveEntity jobs follow the same order; the example killmail yields its five
\* entities in that order.
C11_ExtractionOrder ==
    /\ [](ret # <<>> =>
            LET es == ret[1].entities
                kept == SelectSeq(es, LAMBDA e : e.id # 0)
                jobs == [i \in DOMAIN kept |-> Job("SaveEntity", kept[i].id, kept[i].type)]
                done == Len(jobs) - Len(ret[1].out)
            IN  /\ ret[1].out = SubSeq(jobs, done + 1, Len(jobs))
                /\ Len(ret[1].sent) + ret[1].failed = done
                /\ ret[1].sent = SubSeq(jobs, 1, Len(ret[1].sent))
                /\ ret[1].failed > 0 => Closed
                /\ nAccepted = Len(ret[1].sent)
                /\ \A i \in DOMAIN queue :
                      queue[i] = [jobs[queue[i].seq] EXCEPT !.seq = queue[i].seq])
    /\ [][/\ ret # <<>> => ret'[1].entities = ret[1].entities
          /\ ret = <<>> /\ ret' # <<>> =>
                LET es == ret'[1].entities
                IN  /\ ClaimedOrder(arg, es)
                    /\ arg = ExampleDoc =>
                          es = <<Entity(30000142, "solar_system"), Entity(1, "character"),
                                 Entity(10, "corporation"), Entity(2, "character"),
                                 Entity(600, "ship_type")>>]_vars

C11_Witness ==
    /\ ExtractReturned
    /\ arg = ExampleDoc
    /\ Len(ret[1].sent) = 5
    /\ Len(queue) = QueueCapacity

\* the victim and the attackers categories, as sets
VictimCategories == {VictimOrder[i] : i \in DOMAIN VictimOrder}
AttackerCategories == {AttackerOrder[i] : i \in DOMAIN AttackerOrder}

\* the number of entries of the document (the victim and each attacker) that
\* carry the identifier v in the field of the category
Carriers(doc, v, type) ==
    (IF doc.victim # <<>> /\ FieldOf(doc.victim[1], type) = <<v>> THEN 1 ELSE 0)
    + Cardinality({k \in DOMAIN doc.attackers :
                     /\ type \in AttackerCategories
                     /\ FieldOf(doc.attackers[k], type) = <<v>>})

\* the number of entities after the solar system with this identifier and category
Emitted(es, v, type) ==
    Cardinality({i \in 2..Len(es) : es[i].id = v /\ es[i].type = type})

\* the identifiers that occur in the fields of the victim and the attackers
EntryIds(doc) ==
    (IF doc.victim = <<>> THEN {}
     ELSE {FieldOf(doc.victim[1], t)[1] :
              t \in {c \in VictimCategories : FieldOf(doc.victim[1], c) # <<>>}})
    \cup UNION {{FieldOf(doc.attackers[k], t)[1] :
                    t \in {c \in AttackerCategories : FieldOf(doc.attackers[k], c) # <<>>}} :
                k \in DOMAIN doc.attackers}

\* C12: for the victim and every attacker, an entity of a category is emitted
\* for an entry if and only if the entry carries that identifier field, and an
\* identifier carried by k entries yields k entities: for every identifier and
\* category the entities emitted are as many as the entries that carry it.
C12_PresenceNoDedup ==
    [][ret = <<>> /\ ret' # <<>> =>
         LET es == ret'[1].entities IN
         /\ \A i \in 2..Len(es) : es[i].type \in VictimCategories
         /\ \A type \in VictimCategories :
            \A v \in EntryIds(arg) \cup {es[i].id : i \in 2..Len(es)} :
               Emitted(es, v, type) = Carriers(arg, v, type)]_vars

C12_Witness ==
    /\ ExtractReturned
    /\ arg.victim # <<>>
    /\ arg.victim[1].alliance_id = <<>>
    /\ arg.victim[1].character_id = <<1>>
    /\ Len(arg.attackers) = 2
    /\ \A k \in DOMAIN arg.attackers :
          /\ arg.attackers[k].character_id = <<1>>
          /\ arg.attackers[k].alliance_id = <<1>>
    /\ Emitted(ret[1].entities, 1, "character") = 3
    /\ Emitted(ret[1].entities, 1, "alliance") = 2

\* the number of jobs a task has sent
NSent(t) == Len(t.got) - Len(t.out)

\* the tasks of the FetchKillmails job in hand are consistent: one per account,
\* a failed task got nothing, an ended task has nothing left to send, and what
\* is left to send is the rest of the distinct items listed, each a SaveKillmail
\* job with status new
FetchTasksOk ==
    (proc_pc = "join" /\ cur.kind = "Killmails") =>
        /\ Len(tasks) = Len(rows)
        /\ \A i \in DOMAIN tasks :
              LET t == tasks[i] IN
              /\ t.st = "failed" => t.got = <<>>
              /\ t.st \in {"done", "failed"} => t.out = <<>>
              /\ t.st = "send" => t.out # <<>>
              /\ t.out = SubSeq(t.got, NSent(t) + 1, Len(t.got))
              /\ \A j \in DOMAIN t.got :
                    /\ t.got[j].kind = "SaveKillmail"
                    /\ t.got[j].b = "new"
                    /\ \A h \in DOMAIN t.got : h # j => t.got[h].a # t.got[j].a

\* a step of task i of the FetchKillmails job in hand: its fetch returns and
\* leaves the queue alone, or its next listed job is placed at the tail of the
\* queue; the other tasks are left as they are
FetchTaskStep(i) ==
    /\ \A j \in DOMAIN tasks : j # i => tasks'[j] = tasks[j]
    /\ \/ /\ tasks[i].st = "fetch"
          /\ queue' = queue
       \/ /\ tasks[i].st = "send"
          /\ tasks'[i].got = tasks[i].got
          /\ tasks'[i].out = Tail(tasks[i].out)
          /\ queue' = Append(queue, [Head(tasks[i].out) EXCEPT !.seq = nAccepted + 1])

\* C13: while a FetchKillmails job is handled there is one fetch task per
\* account; a task whose fetch failed sends nothing, and a task whose fetch
\* succeeded sends one SaveKillmail job with status new per listed item,
\* whatever the other tasks did: every step of a task is its own fetch or the
\* enqueue of its next listed job, and a task that has ended has sent all it
\* listed.
C13_FetchIsolation ==
    /\ []FetchTasksOk
    /\ [][(proc_pc = "join" /\ cur.kind = "Killmails" /\ proc_pc' = "join"
           /\ tasks' # tasks)
          => \E i \in DOMAIN tasks : FetchTaskStep(i)]_vars

C13_Witness ==
    /\ proc_pc = "join"
    /\ cur.kind = "Killmails"
    /\ \E i, j \in DOMAIN tasks :
          /\ tasks[i].st = "failed"
          /\ tasks[j].st = "done"
          /\ tasks[j].got # <<>>
          /\ j > i
    /\ \E q \in DOMAIN queue :
          queue[q].kind = "SaveKillmail" /\ queue[q].seq > cur.seq

\* a sub-task has settled: it has ended, with or without an error, and has
\* nothing left to send
Settled(t) == t.st \in {"done", "failed"} /\ t.out = <<>>

\* C14: while a FetchKillmails or ResolveKillmails job is handled the Processor
\* dequeues no job: it leaves the join only when every sub-task has settled,
\* and whenever it dequeues a job no sub-task is left.
C14_JoinBeforeDone ==
    /\ [](tasks # <<>> => proc_pc = "join" /\ started = finished + 1)
    /\ [][/\ (proc_pc = "join" /\ proc_pc' # "join")
             => (\A i \in DOMAIN tasks : Settled(tasks[i])) /\ tasks' = <<>>
          /\ started' # started => tasks = <<>> /\ proc_pc = "recv"
          /\ (proc_pc = "join" /\ proc_pc' = "join")
             => (cur' = cur /\ started' = started /\ finished' = finished
                 /\ Len(queue') >= Len(queue))]_vars

C14_Witness ==
    /\ proc_pc = "join"
    /\ Len(tasks) >= 2
    /\ tasks[1].st = "fetch"
    /\ Settled(tasks[2])
    /\ tasks[2].got # <<>>
    /\ \E q \in DOMAIN queue : queue[q].seq = cur.seq + 1

\* C15: an exchange failure for one account of a Refresh batch does not prevent
\* the remaining accounts from being exchanged: while accounts of the batch in
\* hand are left after the current one, the Processor is still working on the
\* batch.
C15_BatchContinues ==
    (cur.kind = "Refresh" /\ Len(todo) >= 2)
        => proc_pc \in {"refresh", "refresh_send"}

\* the request's state parameter is absent or differs from the stored nonce,
\* or no nonce is stored
NonceMismatch(req) == req.cookie = <<>> \/ req.state = <<>> \/ req.state # req.cookie

\* C16: a callback whose state parameter is absent or differs from the stored
\* nonce, or that carries no stored nonce, is rejected before any token
\* exchange: no call to the provider is made, no SaveCharacter job is enqueued
\* and no account is saved.
C16_NonceBinding ==
    (ret # <<>> /\ NonceMismatch(arg)) =>
        /\ ~ret[1].exchanged
        /\ ret[1].status = <<400>>
        /\ \A i \in DOMAIN queue : queue[i].kind # "SaveCharacter"
        /\ cur.kind # "SaveCharacter"
        /\ rows = <<>>

C16_Witness ==
    /\ ret # <<>>
    /\ arg.cookie = <<"n1">>
    /\ arg.state = <<"n2">>
    /\ arg.exchange = "ok"
    /\ ret[1].status = <<400>>
    /\ main_pc = "exited"

\* the call whose result is in ret was a validate_jwt
Validated == ret # <<>> /\ arg # <<>> /\ ret[1].op = "validate"

\* the token's issuer claim is a string outside the two accepted ones
ForeignIssuer(tok) ==
    /\ tok.iss # <<>>
    /\ tok.iss[1].type = "string"
    /\ tok.iss[1].v \notin {"login.eveonline.com", "https://login.eveonline.com"}

\* C17: validate never returns claims for a token whose issuer is a string
\* other than the two accepted issuers, whatever its signature, subject and
\* audience, and whenever the signing key was obtained (so that a signature
\* can be valid at all) it returns a validation error.
C17_IssuerAllowList ==
    (Validated /\ ForeignIssuer(arg.resp.access_token)) =>
        /\ ret[1].res.tag # "Ok"
        /\ arg.jwks = "ok" => ret[1].res.tag = "Err"

\* a token of a foreign issuer with a valid signature, subject, expiry and
\* audience has been refused
C17_Witness ==
    /\ Validated
    /\ arg.jwks = "ok"
    /\ arg.resp.access_token = [GoodToken EXCEPT !.iss = <<Str("evil.example")>>]
    /\ ret[1].res.tag = "Err"

\* the token carries every claim with the type Claims wants, is signed by
\* the provider's key, is not expired and names an accepted audience and
\* an accepted issuer
ValidToken(tok, clock) ==
    /\ tok.sig = "ok"
    /\ tok.sub # <<>>
    /\ tok.exp # <<>> /\ tok.exp[1] >= clock
    /\ tok.aud # <<>> /\ tok.aud[1].type = "array"
    /\ tok.aud[1].v \cap {"app_id", "EVE Online"} # {}
    /\ tok.iss # <<>> /\ tok.iss[1].type = "string"
    /\ tok.iss[1].v \in {"login.eveonline.com", "https://login.eveonline.com"}

\* C18: validation fails closed with an error value: whenever a claim is
\* missing or invalid, the signature is bad, or the signing-key set cannot
\* be fetched or holds no usable key, validate returns a validation error;
\* it returns no claims and does not abort (panic) its caller.
C18_FailsClosed ==
    (Validated /\ ~(arg.jwks = "ok" /\ ValidToken(arg.resp.access_token, arg.clock)))
        => ret[1].res.tag = "Err"

\* the call whose result is in ret was a token_exchange that succeeded
Exchanged == ret # <<>> /\ arg # <<>> /\ ret[1].op = "exchange" /\ ret[1].res.tag = "Ok"

\* the subject has the format CHARACTER:EVE:<id>, <id> being decimal digits
HasFormat(sub) ==
    /\ Len(sub) >= 2
    /\ sub[1] = "CHARACTER:EVE:"
    /\ \A i \in 2..Len(sub) : sub[i] \in {"0", "1", "2", "3", "4", "5", "6", "7", "8", "9"}

\* the decimal numeral of a natural number, without leading zeros
RECURSIVE Numeral(_)
Numeral(n) ==
    IF n = 0 THEN <<>>
    ELSE Numeral(n \div 10) \o <<DIGITS[(n % 10) + 1]>>

\* C19: for every successful exchange the Account's character identifier
\* is the number written after CHARACTER:EVE: in the validated subject and
\* its access-token expiry is the claim's expiry.
C19_ExchangeBuildsAccount ==
    Exchanged =>
        LET tok == arg.resp.access_token
            user == ret[1].res.val[1]
        IN  /\ HasFormat(tok.sub[1]) =>
                  /\ user.character_id >= 0
                  /\ Numeral(user.character_id) = StripZeros(Tail(tok.sub[1]))
            /\ user.expires_at = tok.exp[1]

\* at most one account record per character identifier
OneRowPerCharacter ==
    \A i, j \in DOMAIN rows : rows[i].character_id = rows[j].character_id => i = j

\* a step keeps every account, and a SaveCharacter job that was stored for
\* a character with a record leaves that record with the job's tokens and
\* expiry and a later update timestamp
UpsertStep ==
    /\ \A c \in Chars : RowOf(rows, c) # {} => RowOf(rows', c) # {}
    /\ (now' # now /\ ret' = <<"ok">> /\ RowOf(rows, arg'.character_id) # {}) =>
          \A i \in RowOf(rows, arg'.character_id) :
            \E j \in RowOf(rows', arg'.character_id) :
                /\ rows'[j].access_token = arg'.access_token
                /\ rows'[j].refresh_token = arg'.refresh_token
                /\ rows'[j].expires_at = arg'.expires_at
                /\ rows'[j].updated_at > rows[i].updated_at

\* C20: after any sequence of SaveAccount jobs the store holds at most one
\* account record per character identifier; a SaveAccount for an identifier
\* that has a record replaces the record's access token, refresh token and
\* expiry by the job's and bumps its update timestamp; no account is deleted.
C20_AccountUpsert == []OneRowPerCharacter /\ [][UpsertStep]_vars

\* an account stored earlier has been overwritten by a later job
C20_Witness ==
    /\ ret = <<"ok">>
    /\ Len(rows) = 2
    /\ \E i \in DOMAIN rows :
        /\ rows[i].character_id = arg.character_id
        /\ rows[i].created_at < arg.created_at
        /\ rows[i].updated_at > arg.created_at
        /\ rows[i].access_token = arg.access_token
        /\ rows[i].refresh_token = arg.refresh_token
        /\ rows[i].expires_at = arg.expires_at

\* at most one reference per killmail identifier
OneRowPerKillmail ==
    \A i, j \in DOMAIN rows : rows[i].killmail_id = rows[j].killmail_id => i = j

\* a save_killmail that reached the database for an identifier already
\* stored returns Ok and leaves the table, hash and status included, as it was
DuplicateSaveStep ==
    (/\ now' # now
     /\ ret'[1].op = "save"
     /\ ret'[1].env = "ok"
     /\ KillmailRowOf(rows, arg'.killmail_id) # {}) =>
        /\ ret'[1].res.tag = "Ok"
        /\ rows' = rows

\* C21: saving a killmail reference whose identifier is already stored is a
\* no-op that returns without error and leaves the stored hash and status
\* unchanged (a status advanced past new is not reset to new), so the store
\* holds at most one reference per killmail identifier.
C21_KillmailInsertIdempotent == []OneRowPerKillmail /\ [][DuplicateSaveStep]_vars

\* a reference advanced to resolved has been listed and saved again, under
\* another hash, and is still the only row, with its hash and status
C21_Witness ==
    /\ ret # <<>>
    /\ ret[1].op = "save"
    /\ ret[1].res = Ok(0)
    /\ Len(rows) = 1
    /\ rows[1].killmail_id = arg.killmail_id
    /\ rows[1].status = "resolved"
    /\ rows[1].killmail_hash # arg.killmail_hash

\* the rows of the table that hold the entity's identifier and type
SameEntityRows(rs, entity) ==
    {i \in DOMAIN rs : rs[i].id = entity.id /\ rs[i].type_ = entity.type_}

\* a save_entity that reached the database for an (identifier, type) already
\* stored returns Ok, and leaves exactly one row for it, with the name it had
SecondInsertStep ==
    (/\ now' # now
     /\ ret'[1].env = "ok"
     /\ SameEntityRows(rows, arg') # {}) =>
        /\ ret'[1].res.tag = "Ok"
        /\ Cardinality(SameEntityRows(rows', arg')) = 1
        /\ \A i \in SameEntityRows(rows, arg') :
              i \in SameEntityRows(rows', arg') /\ rows'[i].name = rows[i].name

\* C22: inserting the same (identifier, type) entity twice leaves exactly
\* one row for it, the second insertion reports no error, and the name of
\* the existing row is not changed by the second insertion.
C22_EntityInsertIdempotent ==
    /\ [](\A i \in DOMAIN rows : Cardinality(SameEntityRows(rows, rows[i])) = 1)
    /\ [][SecondInsertStep]_vars

\* a stored entity has been saved a second time under another name: one row,
\* the first name
C22_Witness ==
    /\ ret # <<>>
    /\ ret[1].res = Ok(0)
    /\ Len(rows) = 1
    /\ rows[1].id = arg.id
    /\ rows[1].type_ = arg.type_
    /\ rows[1].name = "name"
    /\ arg.name = ""

\* the SaveEntity jobs of the entities of a document whose identifier is not 0
SaveEntityJobsOf(doc) ==
    LET ents == ExtractEntities(doc)
        kept == SelectSeq(ents, LAMBDA e : e.id # 0)
    IN  [k \in 1..Len(kept) |->
            [kind |-> "SaveEntity", a |-> kept[k].id, b |-> kept[k].type, seq |-> 0]]

\* the job sequences of the documents the remote API may return
SaveEntityJobSeqs == {SaveEntityJobsOf(doc) : doc \in Docs}

\* one step of the handling of a ResolveKillmails job
ResolveStep ==
    \* the job is dequeued: one detail fetch per pending killmail reference
    /\ (proc_pc = "recv" /\ proc_pc' = "join" /\ cur'.kind = "ResolveKillmails") =>
          /\ Len(tasks') = Cardinality(killmails)
          /\ \A i \in DOMAIN tasks' : tasks'[i].st = "fetch"
    /\ (proc_pc = "join" /\ proc_pc' = "join" /\ cur.kind = "ResolveKillmails") =>
          \A i \in DOMAIN tasks :
            \* a fetch returns: the task failed, or it has one SaveEntity
            \* job per non-sentinel entity of the document to send
            /\ (tasks[i].st = "fetch" /\ tasks'[i].st # "fetch") =>
                  \/ tasks'[i].st = "failed"
                  \/ /\ tasks'[i].got \in SaveEntityJobSeqs
                     /\ tasks'[i].out = tasks'[i].got
            \* a send: the first job left goes to the tail of the queue
            /\ (tasks[i].st = "send" /\ tasks'[i] # tasks[i]) =>
                  /\ tasks'[i].out = Tail(tasks[i].out)
                  /\ tasks'[i].got = tasks[i].got
                  /\ Len(queue') = Len(queue) + 1
                  /\ queue'[Len(queue')].kind = "SaveEntity"
                  /\ queue'[Len(queue')].a = Head(tasks[i].out).a
                  /\ queue'[Len(queue')].b = Head(tasks[i].out).b
    \* a SaveEntity job is dequeued: its arm starts and the table changes, if
    \* at all, by the upsert of the job's entity
    /\ (proc_pc = "recv" /\ queue # <<>> /\ queue[1].kind = "SaveEntity" /\ cur' # cur) =>
          /\ cur' = queue[1]
          /\ started' = queue[1].seq
          /\ \/ entities' = entities
             \/ /\ entities[queue[1].a] = ""
                /\ entities' = [entities EXCEPT ![queue[1].a] = queue[1].b]

\* a resolution task that has ended without an error has sent all its jobs
ResolveTasksOk ==
    cur.kind = "ResolveKillmails" =>
        \A i \in DOMAIN tasks : tasks[i].st = "done" => tasks[i].out = <<>>

\* C23: a dequeued ResolveKillmails job makes the Processor query the
\* pending killmail references and, for each, fetch the detail and enqueue
\* one SaveEntity job per extracted non-sentinel entity; a dequeued
\* SaveEntity job results in the entity upsert.
C23_ResolveDispatch == []ResolveTasksOk /\ [][ResolveStep]_vars

\* a resolution task has enqueued the two SaveEntity jobs of its document
C23_Witness ==
    /\ proc_pc = "join"
    /\ cur.kind = "ResolveKillmails"
    /\ \E i \in DOMAIN tasks :
        /\ tasks[i].st = "done"
        /\ Len(tasks[i].got) = 2
        /\ \A k \in 1..2 : /\ queue[k].kind = "SaveEntity"
                           /\ queue[k].a = tasks[i].got[k].a
                           /\ queue[k].b = tasks[i].got[k].b
    /\ Len(queue) = 2

\* C24: whenever the stop signal is sent, in whatever state the scheduler
\* task is, the scheduler starts no enqueue after the signal (the one in
\* progress may complete), and the task eventually ends.
C24_CancelAnyState ==
    /\ [](afterCancel = 0)
    /\ (stop_signal ~> sched_pc = "done")

\* get_killmail_data is past its request for a document without
\* solar_system_id
NoSolarSystem == ret # <<>> /\ arg # <<>> /\ arg.solar_system_id = <<>>

\* C25: a document without solar_system_id does not abort its resolution:
\* the solar-system candidate takes the identifier 0 and is not enqueued,
\* and the victim and attacker entities are enqueued exactly as for the
\* same document with a solar_system_id.
C25_MissingSolarSystem ==
    NoSolarSystem =>
        /\ ret[1].entities # <<>>
        /\ ret[1].entities[1] = [id |-> 0, type |-> "solar_system"]
        /\ \A i \in DOMAIN queue : queue[i].a # 0 /\ queue[i].b # "solar_system"
        /\ \A i \in DOMAIN ret[1].sent :
              ret[1].sent[i].a # 0 /\ ret[1].sent[i].b # "solar_system"
        /\ ret[1].failed = 0 =>
              EntityJobs([arg EXCEPT !.solar_system_id = <<1>>])
                = <<[kind |-> "SaveEntity", a |-> 1, b |-> "solar_system", seq |-> 0]>>
                  \o ret[1].sent \o ret[1].out

\* a document without solar_system_id whose victim and attacker entities
\* have been handed to the queue
C25_Witness ==
    /\ NoSolarSystem
    /\ ExtractReturned
    /\ arg.victim # <<>>
    /\ arg.attackers # <<>>
    /\ ret[1].sent # <<>>
    /\ ret[1].sent[1].b = "character"
    /\ \E i \in DOMAIN ret[1].sent : ret[1].sent[i].b = "ship_type"

\* the exchange of arg was made, and its access token passed validate:
\* the token request was answered with JSON, the key set was fetched, and
\* the token is a valid one of the login server
PassedValidate ==
    /\ ret # <<>>
    /\ ret[1].exchanged
    /\ arg.call.resp.http = "json"
    /\ arg.call.jwks = "ok"
    /\ ValidToken(arg.call.resp.access_token, arg.call.clock)

\* the jobs that carry an account to the store
SaveAccountJobs == {i \in 1..Len(queue) : queue[i].kind = "SaveCharacter"}

\* a step of a callback or a refresh whose token request or validate fails
\* enqueues nothing and leaves the stored accounts alone
FailedExchangeStep ==
    (ret = <<>> /\ ret' # <<>> /\ ret'[1].res.tag # "Ok")
        => /\ Len(queue') <= Len(queue)
           /\ \A i \in 1..Len(queue') : queue'[i].kind # "SaveCharacter"
           /\ rows' = rows

\* C26: a SaveAccount job is in the queue, or in the Processor's hands, only
\* for the account returned by an exchange whose access token passed
\* validate; when the token request or validate fails, no SaveAccount job is
\* enqueued and the stored accounts stay as they were.
C26_NoUnvalidatedSave ==
    /\ [](\A i \in SaveAccountJobs :
              /\ PassedValidate
              /\ ret[1].res.tag = "Ok"
              /\ queue[i].a = ret[1].res.val[1].character_id)
    /\ [](cur.kind = "SaveCharacter" => PassedValidate)
    /\ [][FailedExchangeStep]_vars

\* a refresh enqueued the account of a validated token
C26_Witness ==
    /\ SaveAccountJobs # {}
    /\ PassedValidate
    /\ ret[1].op = "refresh"

\* C27: the single consumer does not deadlock on itself: also when the queue
\* is full while the fan-out of the job in hand performs blocking enqueues
\* into it, the Processor eventually finishes the job (and is back at the
\* dequeue, or has left its loop).
C27_NoSelfDeadlock == Handling ~> ~Handling

\* C28: no stale refresh token is reused: a Refresh job reads the tokens
\* produced by every Refresh job handled before it, so a refresh token of an
\* account for which one Refresh job was given a new pair is never submitted
\* to the provider by another Refresh job, also when the second job was in
\* the queue ahead of the SaveCharacter jobs of the first.
C28_NoStaleRefresh ==
    \A i, j \in DOMAIN ret :
        (i < j /\ ret[i].issued
         /\ ret[i].character_id = ret[j].character_id
         /\ ret[i].submitted = ret[j].submitted)
            => ret[i].job = ret[j].job

\* the Processor has left its loop on a Stop job
ExitedOnStop == proc_pc = "stopped"

\* a tick of the scheduler after the exit: the send returns at once, the job
\* is not placed, and the scheduler selects again
TickAfterStop ==
    (ExitedOnStop /\ sends' # sends)
        => /\ sched_pc' = "select"
           /\ queue' = <<>>
           /\ nAccepted' = nAccepted
           /\ enq' = enq
           /\ \E k \in {"refresh", "fetch"} : lastFire'[k] = now

\* a send of the scheduler that was suspended when the Processor left
WakeAfterStop ==
    (ExitedOnStop /\ sched_pc = "send" /\ sched_pc' # "send")
        => queue' = <<>> /\ nAccepted' = nAccepted /\ enq' = enq /\ sched_pc' = "select"

\* C29: after the Processor has exited on Stop no producer hangs: a blocking
\* enqueue of the scheduler returns at once with its job discarded, a
\* non-blocking enqueue is rejected, and the scheduler keeps running and
\* ticking until it is cancelled.
C29_ProducersAfterStop ==
    /\ [](ExitedOnStop => (queue = <<>> /\ TryResult = "closed"))
    /\ []((ExitedOnStop /\ sched_pc = "send") => ENABLED SchedSend)
    /\ []((ExitedOnStop /\ sched_pc = "select" /\ ~stop_signal)
            => \A k \in {"refresh", "fetch"} : TimerReady(k) => ENABLED SchedTick(k))
    /\ []((ExitedOnStop /\ ~stop_signal) => sched_pc # "done")
    /\ [][TickAfterStop /\ WakeAfterStop]_vars

\* after the exit the scheduler has ticked at a later time and selects
\* again, a Refresh job of its was discarded, and it is not cancelled
C29_Witness ==
    /\ ExitedOnStop
    /\ lastFire["refresh"] > 0
    /\ sends["refresh"] > enq["refresh"]
    /\ sched_pc = "select" /\ ~stop_signal

\* the characters whose stored expiry is later than the current time minus
\* 20 minutes
InWindow == {rows[i].character_id : i \in {k \in DOMAIN rows :
                 rows[k].expires_at > now - REFRESH_WINDOW}}

\* the Processor takes a Refresh job: the accounts it goes on to exchange
\* are exactly those inside the window
SelectionStep ==
    (started' # started /\ queue[1].kind = "Refresh")
        => /\ {todo'[i].character_id : i \in DOMAIN todo'} = InWindow
           /\ \A i \in DOMAIN todo' : todo'[i] \in {rows[k] : k \in DOMAIN rows}

\* the Processor leaves the batch of a Refresh job only at its last account:
\* no selected account is left without its exchange
BatchStep ==
    (/\ cur.kind = "Refresh"
     /\ proc_pc \in {"refresh", "refresh_send"}
     /\ proc_pc' \notin {"refresh", "refresh_send"})
        => Len(todo) <= 1

\* the stored expiry of the row lies more than 20 minutes in the past
Lapsed(i) == rows[i].expires_at < now - REFRESH_WINDOW

\* the tokens of a lapsed account change only to the pair of a new
\* authorization
LapsedChangeStep ==
    \A i \in DOMAIN rows :
        (Lapsed(i) /\ rows'[i].refresh_token # rows[i].refresh_token)
            => rows'[i].refresh_token < 0

\* C30: a Refresh job exchanges exactly the accounts whose stored expiry is
\* later than the current time minus 20 minutes: it selects exactly those
\* and leaves none of them without its exchange; and the tokens of an
\* account whose expiry lies more than 20 minutes in the past stay unchanged
\* until a new authorization of the character is saved.
C30_RefreshWindow == [][SelectionStep /\ BatchStep /\ LapsedChangeStep]_vars

\* a save_entity that reached the database for an identifier already stored,
\* under whatever type, returns Ok with no row inserted and leaves the table
\* as it was
SameIdStep ==
    (/\ now' # now
     /\ ret'[1].env = "ok"
     /\ EntityRowOf(rows, arg'.id) # {}) =>
        /\ ret'[1].res = Ok(0)
        /\ rows' = rows

\* C31: entities are keyed by the identifier alone: the table holds at most
\* one row per identifier, and a save of an entity whose identifier is
\* stored under another type is a no-op without error that leaves the first
\* row its type and name.
C31_KeyedByIdAlone ==
    /\ [](\A i, j \in DOMAIN rows : rows[i].id = rows[j].id => i = j)
    /\ [][SameIdStep]_vars

\* a character is stored, and a ship_type with the same identifier and
\* another name has been saved after it: one row, still the character
C31_Witness ==
    /\ ret # <<>>
    /\ ret[1].res = Ok(0)
    /\ arg.type_ = "ship_type"
    /\ \E i \in DOMAIN rows :
        /\ rows[i].id = arg.id
        /\ rows[i].type_ = "character"
        /\ rows[i].name # arg.name
    /\ Cardinality(EntityRowOf(rows, arg.id)) = 1

\* the text is a decimal integer of 64 bits: an optional sign and one or
\* more digits, not below i64::MIN and not above i64::MAX
IsInteger(s) ==
    \E sign \in {<<>>, <<"+">>, <<"-">>} :
        /\ Len(s) > Len(sign)
        /\ SubSeq(s, 1, Len(sign)) = sign
        /\ LET ds == SubSeq(s, Len(sign) + 1, Len(s)) IN
           /\ \A i \in DOMAIN ds : ds[i] \in Digit
           /\ Fits(StripZeros(ds), IF sign = <<"-">> THEN I64_MIN ELSE I64_MAX)

\* what is left of the subject when the prefix CHARACTER:EVE: is removed
AfterPrefix(sub) == SelectSeq(sub, LAMBDA c : c # "CHARACTER:EVE:")

\* the exchange of arg was made on a valid token of the login server
ValidExchange ==
    /\ ret # <<>>
    /\ ret[1].exchanged
    /\ arg.call.resp.http = "json"
    /\ arg.call.jwks = "ok"
    /\ ValidToken(arg.call.resp.access_token, arg.call.clock)

\* C32: account construction never fails on the subject: an exchange on a
\* valid token succeeds whatever its subject; a subject with no parseable
\* integer after the prefix gives the character identifier 0 and an expiry
\* out of range gives the epoch; the job that carries such an account and
\* the stored account have that identifier.
C32_SubjectFallback ==
    ValidExchange =>
        LET tok == arg.call.resp.access_token
            res == ret[1].res
        IN  /\ res.tag = "Ok"
            /\ ~IsInteger(AfterPrefix(tok.sub[1])) => res.val[1].character_id = 0
            /\ (tok.exp[1] > MAX_UTC_DAY \/ tok.exp[1] < MIN_UTC_DAY)
                   => res.val[1].expires_at = 0
            /\ \A i \in SaveAccountJobs : queue[i].a = res.val[1].character_id
            /\ UserIds \subseteq {1, res.val[1].character_id}

\* the account of a subject without an integer was enqueued by the callback
\* and stored under the identifier 0
C32_Witness ==
    /\ ValidExchange
    /\ ret[1].op = "callback"
    /\ ~IsInteger(AfterPrefix(arg.call.resp.access_token.sub[1]))
    /\ cur.kind = "SaveCharacter" /\ cur.a = 0
    /\ 0 \in UserIds

\* an account with the epoch as expiry was built from a subject with an
\* integer and enqueued by a refresh
C32_WitnessExpiry ==
    /\ ValidExchange
    /\ ret[1].op = "refresh"
    /\ arg.call.resp.access_token.exp[1] > MAX_UTC_DAY
    /\ ret[1].res.val[1].expires_at = 0
    /\ SaveAccountJobs # {}
====
